---- MODULE Spec2Model ----
(***************************************************************************)
(* Model of the linkage and impact-analysis engine of Row_Finder:          *)
(*   - the linkage builder        scripts/link-regulations-to-laws.js      *)
(*   - the heuristic pre-filter   src/services/aiAnalysis.ts               *)
(*   - the diff/change detector   src/services/lawCrawler.ts               *)
(*   - the impact analyzer        src/services/aiAnalysis.ts and its       *)
(*                                Gemini twin                              *)
(*   - the embedding providers    src/services/embedding.ts and            *)
(*                                src/services/geminiEmbedding.ts          *)
(* Each component has its own variables, its own initial predicate and its *)
(* own next-state relation; a component's specification leaves the other   *)
(* components' variables at their idle values.                             *)
(*                                                                         *)
(* Numbers: a similarity is an integer number of thousandths (0.65 is      *)
(* 650), a stored confidence_score an integer number of hundredths, as the *)
(* column DECIMAL(3, 2) keeps it.  Texts are sequences of one-character    *)
(* strings; a Korean syllable is written by its romanisation ("je" for the *)
(* syllable of U+C81C) and counts as one character.                        *)
(***************************************************************************)
EXTENDS Integers, Sequences, FiniteSets, TLC

VARIABLES
  \* ---- linkage builder
  simProfile,            \* regulation -> similarity profile of the corpus
  hasEmbedding,          \* regulation -> vector_embedding IS NOT NULL
  eligible,              \* articles with an embedding and no deletion mark
  links,                 \* table law_regulation_links
  now,                   \* the latest value Date.now() returned
  badRegs,               \* regulations whose candidate query raises
  badArts,               \* articles whose link INSERT raises
  lpc,                   \* position of linkRegulationsToLaws
  regulations,           \* the run's snapshot of local_regulations
  processed,
  similarArticles,
  ai,                    \* loop index i over similarArticles
  linksCreated,
  totalLinks,
  regulationsWithLinks,
  runs,                  \* completed runs of the script
  writes,                \* what the saves of the current run did
  reviewed,              \* what the reviewer has marked verified
  \* ---- heuristic pre-filter
  hOld,                  \* oldArticle, or Null
  hNew,                  \* newArticle
  hReg,                  \* regulationArticle
  hResult,               \* the value quickHeuristicAnalysis returned
  hpc,
  \* ---- diff/change detector
  dOld,                  \* oldArticles
  dNew,                  \* newArticles
  dChanges,              \* the value compareArticles returned
  dpc,
  \* ---- impact analyzer, one call
  aFlavor,               \* "openai" (analyzeLawImpact) or "gemini"
  aReply,                \* what the provider answers
  aResult,               \* the value the analyzer returned
  apc,
  \* ---- impact analyzer, batch
  bFlavor,
  bRequests,             \* per request, what the provider answers to it
  bOnProgress,           \* whether the caller passed onProgress
  bResults,              \* results
  bI,                    \* loop index i
  bProgress,             \* the calls of onProgress so far
  bpc,
  \* ---- embedding providers, one text
  eFlavor,               \* "openai" (generateEmbedding) or "gemini"
  eText,
  eReply,                \* what the provider answers
  eResponse,             \* the EmbeddingResponse returned
  eFetches,              \* calls of fetch
  epc,
  \* ---- embedding providers, batch
  ebFlavor,
  ebTexts,
  ebReplies,
  ebValidTexts,
  ebI,
  ebEmbeddings,
  ebResponse,
  ebFetches,
  ebpc,
  \* ---- chunkText
  cText,
  cMaxTokens,
  cChunks,
  cpc,
  \* ---- embedArticle
  aeChunks,
  aeKind,
  aeVectors,
  aeResponse,
  aepc,
  \* ---- preprocessTextForEmbedding
  nText,
  nOnce,
  nTwice,
  npc,
  \* ---- cosineSimilarity
  vFlavor,
  vA,
  vB,
  vResult,
  vpc,
  \* ---- matcher
  mFlavor,
  mSims,
  mLimit,
  mThreshold,
  mRaises,
  mRows,
  mpc,
  \* ---- two builder runs for different regulations
  wpc,
  wRows,
  wI,
  \* ---- generateAllEmbeddings
  gArticles,
  gProcessed,
  gSuccess,
  gFailed,
  gInFlight,
  gDelayed,
  gpc,
  \* ---- external cancellation request
  cancelRequested,
  \* ---- chunkText of geminiEmbedding.ts
  gcText,
  gcSize,
  gcOverlap,
  gcStart,
  gcChunks,
  gcpc,
  \* ---- createDbConnection.query
  qFlavor,
  qText,
  qParams,
  qStatement,
  qpc,
  \* ---- padEmbedding
  pIn,
  pDim,
  pOut,
  ppc

linkVars == <<simProfile, hasEmbedding, eligible, links, now, badRegs,
              badArts, lpc,
              regulations, processed, similarArticles, ai, linksCreated,
              totalLinks, regulationsWithLinks, runs, writes, reviewed>>

heurVars == <<hOld, hNew, hReg, hResult, hpc>>

diffVars == <<dOld, dNew, dChanges, dpc>>

analyzeVars == <<aFlavor, aReply, aResult, apc>>

batchVars == <<bFlavor, bRequests, bOnProgress, bResults, bI, bProgress, bpc>>

embedVars == <<eFlavor, eText, eReply, eResponse, eFetches, epc>>

padVars == <<pIn, pDim, pOut, ppc>>

ebatchVars == <<ebFlavor, ebTexts, ebReplies, ebValidTexts, ebI, ebEmbeddings, ebResponse, ebFetches, ebpc>>

chunkVars == <<cText, cMaxTokens, cChunks, cpc>>

articleVars == <<aeChunks, aeKind, aeVectors, aeResponse, aepc>>

normVars == <<nText, nOnce, nTwice, npc>>

cosVars == <<vFlavor, vA, vB, vResult, vpc>>

matchVars == <<mFlavor, mSims, mLimit, mThreshold, mRaises, mRows, mpc>>

pairVars == <<wpc, wRows, wI>>

genVars == <<gArticles, gProcessed, gSuccess, gFailed, gInFlight, gDelayed, gpc>>

cancelVars == <<cancelRequested>>

gchunkVars == <<gcText, gcSize, gcOverlap, gcStart, gcChunks, gcpc>>

queryVars == <<qFlavor, qText, qParams, qStatement, qpc>>

vars == <<queryVars, gchunkVars, cancelVars, genVars, pairVars, matchVars, cosVars, normVars, articleVars, chunkVars, ebatchVars, linkVars, heurVars, diffVars, analyzeVars, batchVars, embedVars,
          padVars>>

\* null and undefined
Null == [null |-> TRUE]

(***************************************************************************)
(* Helpers                                                                 *)
(***************************************************************************)
Range(s) == {s[i] : i \in 1..Len(s)}

Min(a, b) == IF a <= b THEN a ELSE b

\* The ascending sequence of a finite set of integers.
RECURSIVE SortedSeq(_)
SortedSeq(S) ==
  IF S = {} THEN <<>>
  ELSE LET m == CHOOSE x \in S : \A y \in S : x <= y
       IN <<m>> \o SortedSeq(S \ {m})

(***************************************************************************)
(* A component that is not in use rests at its idle values.                *)
(***************************************************************************)
\* linkRegulationsToLaws before its first run, on an empty links table.
LinkIdle ==
  /\ lpc = "idle" /\ regulations = <<>> /\ processed = 0
  /\ similarArticles = <<>> /\ ai = 0 /\ linksCreated = 0
  /\ totalLinks = 0 /\ regulationsWithLinks = 0 /\ runs = 0
  /\ writes = <<>> /\ links = {} /\ now = 0 /\ reviewed = {}

LinkOff ==
  /\ LinkIdle /\ badRegs = {} /\ badArts = {} /\ eligible = {}
  /\ simProfile = <<>> /\ hasEmbedding = <<>>

HeurOff ==
  /\ hOld = Null /\ hNew = Null /\ hReg = Null /\ hResult = Null /\ hpc = "off"

DiffOff == dOld = <<>> /\ dNew = <<>> /\ dChanges = <<>> /\ dpc = "off"

AnalyzeOff == aFlavor = "none" /\ aReply = Null /\ aResult = Null /\ apc = "off"

BatchOff ==
  /\ bFlavor = "none" /\ bRequests = <<>> /\ bOnProgress = FALSE
  /\ bResults = <<>> /\ bI = 0 /\ bProgress = <<>> /\ bpc = "off"

EmbedOff ==
  /\ eFlavor = "none" /\ eText = <<>> /\ eReply = Null /\ eResponse = Null
  /\ eFetches = 0 /\ epc = "off"

PadOff == pIn = <<>> /\ pDim = 0 /\ pOut = <<>> /\ ppc = "off"

EBatchOff ==
  /\ ebFlavor = "none"
  /\ ebTexts = <<>>
  /\ ebReplies = <<>>
  /\ ebValidTexts = <<>>
  /\ ebI = 0
  /\ ebEmbeddings = <<>>
  /\ ebResponse = Null
  /\ ebFetches = 0
  /\ ebpc = "off"

ChunkOff ==
  /\ cText = <<>>
  /\ cMaxTokens = 0
  /\ cChunks = <<>>
  /\ cpc = "off"

ArticleOff ==
  /\ aeChunks = <<>>
  /\ aeKind = "none"
  /\ aeVectors = <<>>
  /\ aeResponse = Null
  /\ aepc = "off"

NormOff ==
  /\ nText = <<>>
  /\ nOnce = <<>>
  /\ nTwice = <<>>
  /\ npc = "off"

CosOff ==
  /\ vFlavor = "none"
  /\ vA = <<>>
  /\ vB = <<>>
  /\ vResult = Null
  /\ vpc = "off"

MatchOff ==
  /\ mFlavor = "none"
  /\ mSims = <<>>
  /\ mLimit = 0
  /\ mThreshold = 0
  /\ mRaises = FALSE
  /\ mRows = <<>>
  /\ mpc = "off"

PairOff ==
  /\ wpc = <<>>
  /\ wRows = <<>>
  /\ wI = <<>>

GenOff ==
  /\ gArticles = <<>>
  /\ gProcessed = 0
  /\ gSuccess = 0
  /\ gFailed = 0
  /\ gInFlight = 0
  /\ gDelayed = FALSE
  /\ gpc = "off"

CancelOff ==
  /\ cancelRequested = FALSE

GChunkOff ==
  /\ gcText = <<>>
  /\ gcSize = 0
  /\ gcOverlap = 0
  /\ gcStart = 0
  /\ gcChunks = <<>>
  /\ gcpc = "off"

QueryOff ==
  /\ qFlavor = "none"
  /\ qText = <<>>
  /\ qParams = <<>>
  /\ qStatement = <<>>
  /\ qpc = "off"

\* Every component but c is not in use, and stays so.
OthersOff(c) ==
  /\ IF c \in {"link", "pair"} THEN TRUE ELSE LinkOff
  /\ IF c = "heur" THEN TRUE ELSE HeurOff
  /\ IF c = "diff" THEN TRUE ELSE DiffOff
  /\ IF c = "analyze" THEN TRUE ELSE AnalyzeOff
  /\ IF c = "batch" THEN TRUE ELSE BatchOff
  /\ IF c = "embed" THEN TRUE ELSE EmbedOff
  /\ IF c = "pad" THEN TRUE ELSE PadOff
  /\ IF c = "query" THEN TRUE ELSE QueryOff
  /\ IF c = "gchunk" THEN TRUE ELSE GChunkOff
  /\ IF c = "cancel" THEN TRUE ELSE CancelOff
  /\ IF c = "gen" THEN TRUE ELSE GenOff
  /\ IF c = "pair" THEN TRUE ELSE PairOff
  /\ IF c = "match" THEN TRUE ELSE MatchOff
  /\ IF c = "cos" THEN TRUE ELSE CosOff
  /\ IF c = "norm" THEN TRUE ELSE NormOff
  /\ IF c = "article" THEN TRUE ELSE ArticleOff
  /\ IF c = "chunk" THEN TRUE ELSE ChunkOff
  /\ IF c = "ebatch" THEN TRUE ELSE EBatchOff

OthersUnchanged(c) ==
  /\ IF c \in {"link", "pair"} THEN TRUE ELSE UNCHANGED linkVars
  /\ IF c = "heur" THEN TRUE ELSE UNCHANGED heurVars
  /\ IF c = "diff" THEN TRUE ELSE UNCHANGED diffVars
  /\ IF c = "analyze" THEN TRUE ELSE UNCHANGED analyzeVars
  /\ IF c = "batch" THEN TRUE ELSE UNCHANGED batchVars
  /\ IF c = "embed" THEN TRUE ELSE UNCHANGED embedVars
  /\ IF c = "pad" THEN TRUE ELSE UNCHANGED padVars
  /\ IF c = "query" THEN TRUE ELSE UNCHANGED queryVars
  /\ IF c = "gchunk" THEN TRUE ELSE UNCHANGED gchunkVars
  /\ IF c = "cancel" THEN TRUE ELSE UNCHANGED cancelVars
  /\ IF c = "gen" THEN TRUE ELSE UNCHANGED genVars
  /\ IF c = "pair" THEN TRUE ELSE UNCHANGED pairVars
  /\ IF c = "match" THEN TRUE ELSE UNCHANGED matchVars
  /\ IF c = "cos" THEN TRUE ELSE UNCHANGED cosVars
  /\ IF c = "norm" THEN TRUE ELSE UNCHANGED normVars
  /\ IF c = "article" THEN TRUE ELSE UNCHANGED articleVars
  /\ IF c = "chunk" THEN TRUE ELSE UNCHANGED chunkVars
  /\ IF c = "ebatch" THEN TRUE ELSE UNCHANGED ebatchVars

(***************************************************************************)
(* Linkage builder: scripts/link-regulations-to-laws.js                    *)
(***************************************************************************)
NRegs == 2
NArts == 6
MaxRuns == 2
MaxClock == 1

SIMILARITY_THRESHOLD == 650
TOP_N_MATCHES == 5

Regs == 1..NRegs
Arts == 1..NArts
ProfileIds == 1..4

\* articles.law_id of an article
LawOf(a) == (a % 2) + 1

\* The corpus' similarity to a regulation, by the article's place k in the
\* profile: 1 - (a.vector_embedding <=> regulationEmbedding), in thousandths.
ProfileSim(p, k) ==
  CASE p = 1 -> 1000 - 50 * (k - 1)
    [] p = 2 -> 652 - (k - 1)
    [] p = 3 -> IF k < TOP_N_MATCHES THEN 700 - 10 * (k - 1) ELSE 650
    [] OTHER -> 649 - 300 * (k - 1)

Similarity(r, a) == ProfileSim(simProfile[r], ((a + r) % NArts) + 1)

\* The orders in which ORDER BY distance may return the articles of T: any
\* most similar one first; among equal distances the database is free.
RECURSIVE Orders(_, _)
Orders(r, T) ==
  IF T = {} THEN {<<>>}
  ELSE UNION {{<<a>> \o s : s \in Orders(r, T \ {a})} :
                a \in {x \in T : \A y \in T :
                         ProfileSim(simProfile[r], ((x + r) % NArts) + 1)
                           >= ProfileSim(simProfile[r], ((y + r) % NArts) + 1)}}

\* The rows the query of findSimilarLawArticles may return: the eligible
\* articles ordered by distance, LIMIT TOP_N_MATCHES.
TopRows(r) ==
  LET n == Min(TOP_N_MATCHES, Cardinality(eligible))
  IN {[i \in 1..n |-> [article_id |-> s[i], law_id |-> LawOf(s[i]),
                       similarity |-> Similarity(r, s[i])]] :
        s \in Orders(r, eligible)}

\* findSimilarLawArticles: the rows of the query, [] when the query raises.
Mutant_findSimilarLawArticles(r, ok) == IF ok THEN TopRows(r) ELSE {}

findSimilarLawArticles(r, ok) == IF ok THEN TopRows(r) ELSE {<<>>}

\* DECIMAL(3, 2): a similarity in thousandths rounded to hundredths.
Decimal32(s) == IF s >= 0 THEN (s + 5) \div 10 ELSE -((5 - s) \div 10)

\* linkId = `link_${regulationId}_${articleId}_${Date.now()}`
Mutant_LinkId(r, a, t) == <<"link", 0, a, t>>

LinkId(r, a, t) == <<"link", r, a, t>>

\* INSERT ... ON CONFLICT (link_id) DO UPDATE SET confidence_score
Mutant_Upsert(tbl, row) ==
  {l \in tbl : l.link_id # row.link_id} \cup {row}

Upsert(tbl, row) ==
  IF \E l \in tbl : l.link_id = row.link_id
  THEN {IF l.link_id = row.link_id
        THEN [l EXCEPT !.confidence_score = row.confidence_score]
        ELSE l : l \in tbl}
  ELSE tbl \cup {row}

\* saveLawRegulationLink: the table after the call and the value returned.
\* The statement raises when the database fails or the CHECK on
\* confidence_score rejects the row.
saveLawRegulationLink(tbl, r, a, lawId, similarity, t, ok) ==
  LET row == [link_id |-> LinkId(r, a, t), law_id |-> lawId,
              regulation_id |-> r, article_id |-> a,
              confidence_score |-> Decimal32(similarity),
              link_type |-> "basis", verified |-> FALSE,
              verified_by |-> "", verified_at |-> -1]
  IN IF ok /\ row.confidence_score >= 0 /\ row.confidence_score <= 100
     THEN [table |-> Upsert(tbl, row), saved |-> TRUE,
           op |-> IF \E l \in tbl : l.link_id = row.link_id
                  THEN "update" ELSE "insert"]
     ELSE [table |-> tbl, saved |-> FALSE, op |-> "none"]

\* The corpus: regulation r has profile ((p + r) % 4) + 1 for one p; the last
\* regulation may lack an embedding; articles 1 and 2 may be ineligible.
InitLinkData ==
  /\ \E p \in ProfileIds : simProfile = [r \in Regs |-> ((p + r) % 4) + 1]
  /\ hasEmbedding \in {[r \in Regs |-> TRUE], [r \in Regs |-> r # NRegs]}
  /\ eligible \in {Arts, Arts \ {1, 2}}

\* The database may raise on the candidate query of regulation 1 and on the
\* INSERT of a link to article 3.
InitLink ==
  /\ InitLinkData /\ LinkIdle /\ badRegs \in {{}, {1}} /\ badArts \in {{}, {3}}
  /\ OthersOff("link")

\* The database raises nowhere.
InitLinkOk ==
  /\ InitLinkData /\ LinkIdle /\ badRegs = {} /\ badArts = {}
  /\ OthersOff("link")

\* Line 123: only a similarity at or above the threshold is saved.
Mutant_AboveThreshold(similarity) == similarity > SIMILARITY_THRESHOLD

AboveThreshold(similarity) == similarity >= SIMILARITY_THRESHOLD

\* The values a call of Date.now() may return: time does not run backwards.
DateNow == now..Min(now + 1, MaxClock)

\* Lines 74-94: the script starts; it reads the regulations with embeddings.
StartRun ==
  /\ lpc = "idle" /\ runs < MaxRuns
  /\ LET regs == SortedSeq({r \in Regs : hasEmbedding[r]})
     IN /\ regulations' = regs
        /\ IF Len(regs) = 0
           THEN lpc' = "idle" /\ runs' = runs + 1
           ELSE lpc' = "loop" /\ runs' = runs
  /\ processed' = 0 /\ totalLinks' = 0 /\ regulationsWithLinks' = 0
  /\ similarArticles' = <<>> /\ ai' = 0 /\ linksCreated' = 0
  /\ writes' = <<>>
  /\ UNCHANGED <<reviewed, simProfile, hasEmbedding, eligible, links, now, badRegs,
                 badArts>>

\* Lines 96-116: the next regulation; its candidates are retrieved.
LoopRegulation ==
  /\ lpc = "loop" /\ processed < Len(regulations)
  /\ processed' = processed + 1
  /\ LET r == regulations[processed + 1]
     IN \E rows \in findSimilarLawArticles(r, r \notin badRegs) :
          IF Len(rows) = 0
          THEN /\ lpc' = "loop"
               /\ UNCHANGED <<similarArticles, ai, linksCreated>>
          ELSE /\ lpc' = "articles"
               /\ similarArticles' = rows /\ ai' = 0 /\ linksCreated' = 0
  /\ UNCHANGED <<reviewed, simProfile, hasEmbedding, eligible, links, now, badRegs,
                 badArts, regulations, totalLinks, regulationsWithLinks, runs,
                 writes>>

\* Lines 118-148: one candidate of the regulation; after the last one the
\* regulation is counted.
ArticleStep ==
  /\ lpc = "articles" /\ ai < Len(similarArticles)
  /\ LET article == similarArticles[ai + 1]
         r == regulations[processed]
         last == ai + 1 = Len(similarArticles)
     IN IF AboveThreshold(article.similarity)
        THEN \E t \in DateNow :
               LET res == saveLawRegulationLink(links, r, article.article_id,
                            article.law_id, article.similarity, t,
                            article.article_id \notin badArts)
                   created == IF res.saved THEN linksCreated + 1 ELSE linksCreated
               IN /\ now' = t
                  /\ links' = res.table
                  /\ linksCreated' = created
                  /\ totalLinks' = IF res.saved THEN totalLinks + 1 ELSE totalLinks
                  /\ writes' = IF res.saved
                               THEN Append(writes, [regulation_id |-> r,
                                      article_id |-> article.article_id,
                                      op |-> res.op])
                               ELSE writes
                  /\ regulationsWithLinks' =
                       IF last /\ created > 0 THEN regulationsWithLinks + 1
                       ELSE regulationsWithLinks
        ELSE /\ regulationsWithLinks' =
                  IF last /\ linksCreated > 0 THEN regulationsWithLinks + 1
                  ELSE regulationsWithLinks
             /\ UNCHANGED <<now, links, linksCreated, totalLinks, writes>>
  /\ ai' = ai + 1
  /\ lpc' = IF ai + 1 = Len(similarArticles) THEN "loop" ELSE "articles"
  /\ UNCHANGED <<reviewed, simProfile, hasEmbedding, eligible, badRegs, badArts,
                 regulations, processed, similarArticles, runs>>

\* Lines 162-219: the summary and the verification queries; the run ends.
Summary ==
  /\ lpc = "loop" /\ processed = Len(regulations)
  /\ lpc' = "idle" /\ runs' = runs + 1
  /\ UNCHANGED <<reviewed, simProfile, hasEmbedding, eligible, links, now, badRegs,
                 badArts, regulations, processed, similarArticles, ai,
                 linksCreated, totalLinks, regulationsWithLinks, writes>>

NextLink ==
  /\ StartRun \/ LoopRegulation \/ ArticleStep \/ Summary
  /\ OthersUnchanged("link")

SpecLink == InitLink /\ [][NextLink]_vars

SpecLinkOk == InitLinkOk /\ [][NextLink]_vars

(***************************************************************************)
(* Claims about the linkage builder                                        *)
(***************************************************************************)
RowsOf(r, a) == {l \in links : l.regulation_id = r /\ l.article_id = a}

WritesOf(r, a) ==
  {i \in 1..Len(writes) : writes[i].regulation_id = r /\ writes[i].article_id = a}

RunDone == lpc = "idle" /\ runs >= 1

\* C1: re-running the builder over an unchanged corpus leaves exactly one
\* persisted link row per (regulation, statute article) pair: no pair ever has
\* two rows, and a save for a pair that already has a row is an update of
\* that row, never another insert.
C1_OneRowPerPair ==
  /\ \A r \in Regs : \A a \in Arts : Cardinality(RowsOf(r, a)) <= 1
  /\ \A i \in 1..Len(writes) :
       writes[i].op = "insert" =>
         Cardinality(RowsOf(writes[i].regulation_id, writes[i].article_id)) = 1

\* a is surely among the 5 most similar candidates of r: fewer than 5 other
\* candidates are at least as similar.
SurelyTop5(r, a) ==
  /\ a \in eligible
  /\ Cardinality({b \in eligible \ {a} : Similarity(r, b) >= Similarity(r, a)}) < 5

\* a may be among the 5 most similar candidates of r: fewer than 5 candidates
\* are strictly more similar.
MaybeTop5(r, a) ==
  /\ a \in eligible
  /\ Cardinality({b \in eligible : Similarity(r, b) > Similarity(r, a)}) < 5

\* C2: in a run in which no database call raises, for every regulation with
\* an embedding a link to a statute article is persisted if and only if the
\* article is among the 5 most similar candidates and its similarity is at
\* least 0.65 (650 thousandths; 649 is not enough); each qualifying match is
\* written exactly once by the run, with a confidence_score in [0, 1], and
\* nothing is written for any other match or for a regulation without an
\* embedding.
C2_PersistedIffQualifying ==
  /\ \A l \in links :
       /\ hasEmbedding[l.regulation_id]
       /\ MaybeTop5(l.regulation_id, l.article_id)
       /\ Similarity(l.regulation_id, l.article_id) >= 650
       /\ l.confidence_score >= 0 /\ l.confidence_score <= 100
       /\ l.confidence_score = Decimal32(Similarity(l.regulation_id, l.article_id))
  /\ \A r \in Regs : \A a \in Arts :
       /\ Cardinality(WritesOf(r, a)) <= 1
       /\ WritesOf(r, a) # {} =>
            /\ hasEmbedding[r] /\ MaybeTop5(r, a) /\ Similarity(r, a) >= 650
            /\ \E l \in RowsOf(r, a) :
                 l.confidence_score = Decimal32(Similarity(r, a))
  /\ RunDone =>
       \A r \in Regs :
         /\ \A a \in Arts :
              (hasEmbedding[r] /\ SurelyTop5(r, a) /\ Similarity(r, a) >= 650)
                => Cardinality(WritesOf(r, a)) = 1
         /\ hasEmbedding[r] =>
              Cardinality({a \in Arts : WritesOf(r, a) # {}}) =
                Min(5, Cardinality({a \in eligible : Similarity(r, a) >= 650}))

\* A run has ended in which a candidate at exactly 0.65 was persisted and a
\* candidate at 0.649, also among the 5 most similar, was not.
C2_Witness ==
  /\ RunDone
  /\ \E r \in Regs : \E a, b \in Arts :
       /\ Similarity(r, a) = 650 /\ WritesOf(r, a) # {} /\ RowsOf(r, a) # {}
       /\ Similarity(r, b) = 649 /\ MaybeTop5(r, b) /\ RowsOf(r, b) = {}

(***************************************************************************)
(* Heuristic pre-filter: src/services/aiAnalysis.ts, quickHeuristicAnalysis *)
(***************************************************************************)
MaxRegParts == 2

\* String.prototype.includes
Includes(s, t) == \E i \in 0..(Len(s) - Len(t)) : SubSeq(s, i + 1, i + Len(t)) = t

\* Lines 217-221, in the order of the source.
importantKeywords ==
  << <<"ui", "mu">>, <<"geum", "ji">>, <<"beol", "chik">>,
     <<"gwa", "tae", "ryo">>, <<"cheo", "beol">>, <<"beol", "geum">>,
     <<"gi", "han">>, <<"jeol", "cha">>, <<"seung", "in">>, <<"heo", "ga">>,
     <<"sin", "go">>,
     <<"beom", "wi">>, <<"dae", "sang">>, <<"je", "oe">>, <<"po", "ham">> >>

\* Line 207
Mutant_contentChanged(oldArticle, newArticle) == TRUE

contentChanged(oldArticle, newArticle) ==
  oldArticle.article_content # newArticle.article_content

\* Line 228: `je${newArticle.article_number}jo`
articleRef(newArticle) == <<"je">> \o newArticle.article_number \o <<"jo">>

\* Line 229
hasReference(newArticle, regContent) == Includes(regContent, articleRef(newArticle))

\* Lines 233-236
Mutant_hasSharedKeywords(oldContent, newContent, regContent) ==
  \E k \in 1..Len(importantKeywords) :
    /\ Includes(oldContent, importantKeywords[k])
    /\ Includes(newContent, importantKeywords[k])
    /\ Includes(regContent, importantKeywords[k])

hasSharedKeywords(oldContent, newContent, regContent) ==
  \E k \in 1..Len(importantKeywords) :
    /\ Includes(oldContent, importantKeywords[k])
         \/ Includes(newContent, importantKeywords[k])
    /\ Includes(regContent, importantKeywords[k])

\* Lines 190-250
quickHeuristicAnalysis(oldArticle, newArticle, regulationArticle) ==
  IF oldArticle = Null
  THEN [shouldAnalyze |-> TRUE, reason |-> "New article added"]
  ELSE IF ~contentChanged(oldArticle, newArticle)
  THEN [shouldAnalyze |-> FALSE, reason |-> "No content change"]
  ELSE IF /\ ~hasReference(newArticle, regulationArticle.article_content)
          /\ ~hasSharedKeywords(oldArticle.article_content,
                                newArticle.article_content,
                                regulationArticle.article_content)
  THEN [shouldAnalyze |-> FALSE,
        reason |-> "No direct reference or shared keywords"]
  ELSE [shouldAnalyze |-> TRUE,
        reason |-> IF contentChanged(oldArticle, newArticle)
                   THEN "Significant content change detected"
                   ELSE "Direct reference found"]

\* Inputs: statute contents, article numbers, and regulation texts made of at
\* most MaxRegParts fragments.
Contents ==
  {<<>>, <<"x">>, <<"ui", "mu">>, <<"geum", "ji", "x">>, <<"ui">>, <<"je", "oe">>}

Numbers == {<<"1">>, <<"1", "2">>}

Fragments ==
  {<<"je", "1", "jo">>, <<"je">>, <<"1", "2">>, <<"jo">>, <<"ui", "mu">>,
   <<"geum", "ji">>, <<"x">>, <<"je", "oe">>}

RECURSIVE Texts(_)
Texts(n) ==
  IF n = 0 THEN {<<>>}
  ELSE Texts(n - 1) \cup {t \o f : t \in Texts(n - 1), f \in Fragments}

InitHeur ==
  /\ \E n \in Numbers :
       /\ hNew \in {[article_number |-> n, article_content |-> c] : c \in Contents}
       /\ hOld \in {Null} \cup
                   {[article_number |-> n, article_content |-> c] : c \in Contents}
  /\ hReg \in {[article_number |-> <<"7">>, article_content |-> t] :
                 t \in Texts(MaxRegParts)}
  /\ hResult = Null /\ hpc = "input"
  /\ OthersOff("heur")

Analyze ==
  /\ hpc = "input"
  /\ hResult' = quickHeuristicAnalysis(hOld, hNew, hReg)
  /\ hpc' = "done"
  /\ UNCHANGED <<hOld, hNew, hReg>>
  /\ OthersUnchanged("heur")

NextHeur == Analyze

SpecHeur == InitHeur /\ [][NextHeur]_vars

(***************************************************************************)
(* Claims about the heuristic pre-filter                                   *)
(***************************************************************************)
\* t occurs in s at some place, letter by letter.
Occurs(t, s) ==
  \E i \in 1..(Len(s) + 1) :
    \A j \in 1..Len(t) : i + j - 1 <= Len(s) /\ s[i + j - 1] = t[j]

RefToken(number) == <<"je">> \o number \o <<"jo">>

\* C3: for an old and a new statute article of equal content,
\* quickHeuristicAnalysis answers shouldAnalyze = FALSE whatever the
\* regulation article contains.
C3_EqualContentNotAnalyzed ==
  (hpc = "done" /\ hOld # Null /\ hOld.article_content = hNew.article_content)
    => hResult.shouldAnalyze = FALSE

\* Equal contents that carry a keyword, and a regulation text that holds both
\* the reference to the article and that keyword, were analysed.
C3_Witness ==
  /\ hpc = "done" /\ hOld # Null
  /\ hOld.article_content = hNew.article_content
  /\ Occurs(RefToken(hNew.article_number), hReg.article_content)
  /\ Occurs(<<"ui", "mu">>, hReg.article_content)
  /\ Occurs(<<"ui", "mu">>, hNew.article_content)

\* C4: shouldAnalyze follows the rules in their order: no old article, TRUE;
\* else equal contents, FALSE; else the regulation text holds the reference
\* token of the new article's number, TRUE; else the regulation text shares a
\* significant keyword with the old or the new content, TRUE; else FALSE.
C4_RulesInOrder ==
  hpc = "done" =>
    hResult.shouldAnalyze =
      IF hOld = Null THEN TRUE
      ELSE IF hOld.article_content = hNew.article_content THEN FALSE
      ELSE IF Occurs(RefToken(hNew.article_number), hReg.article_content) THEN TRUE
      ELSE IF \E kw \in Range(importantKeywords) :
                /\ Occurs(kw, hReg.article_content)
                /\ Occurs(kw, hOld.article_content)
                     \/ Occurs(kw, hNew.article_content)
           THEN TRUE
      ELSE FALSE

\* The last rules decided: changed contents, no reference, and a keyword the
\* regulation shares with the old content only.
C4_Witness ==
  /\ hpc = "done" /\ hOld # Null
  /\ hOld.article_content # hNew.article_content
  /\ ~Occurs(RefToken(hNew.article_number), hReg.article_content)
  /\ \E kw \in Range(importantKeywords) :
       /\ Occurs(kw, hReg.article_content)
       /\ Occurs(kw, hOld.article_content)
       /\ ~Occurs(kw, hNew.article_content)
  /\ hResult.shouldAnalyze = TRUE

(***************************************************************************)
(* Diff/change detector: src/services/lawCrawler.ts, compareArticles       *)
(***************************************************************************)
MaxArticles == 2

ArticleNumbers == {"1", "2", "3"}
ArticleContents == {"a", "b"}

\* Map.prototype.set on a Map kept as the sequence of its entries in
\* insertion order: a key already present keeps its place and takes the value.
MapSet(m, k, v) ==
  IF \E i \in 1..Len(m) : m[i][1] = k
  THEN [i \in 1..Len(m) |-> IF m[i][1] = k THEN <<k, v>> ELSE m[i]]
  ELSE Append(m, <<k, v>>)

\* new Map(articles.map(a => [a.article_number, a]))
RECURSIVE ToMap(_)
ToMap(articles) ==
  IF articles = <<>> THEN <<>>
  ELSE LET a == articles[Len(articles)]
       IN MapSet(ToMap(SubSeq(articles, 1, Len(articles) - 1)), a.article_number, a)

MapHas(m, k) == \E i \in 1..Len(m) : m[i][1] = k

\* Map.prototype.get of a key the map has
MapGet(m, k) == m[CHOOSE i \in 1..Len(m) : m[i][1] = k][2]

\* Lines 408-427: the added and the modified articles, in the order of newMap.
RECURSIVE addedAndModified(_, _)
addedAndModified(oldMap, newMap) ==
  IF newMap = <<>> THEN <<>>
  ELSE LET number == newMap[1][1]
           newArticle == newMap[1][2]
           rest == addedAndModified(oldMap, Tail(newMap))
       IN IF ~MapHas(oldMap, number)
          THEN <<[article_number |-> number, change_type |-> "added",
                  new_content |-> newArticle.article_content]>> \o rest
          ELSE IF MapGet(oldMap, number).article_content # newArticle.article_content
          THEN <<[article_number |-> number, change_type |-> "modified",
                  old_content |-> MapGet(oldMap, number).article_content,
                  new_content |-> newArticle.article_content]>> \o rest
          ELSE rest

\* Lines 430-438: the deleted articles, in the order of oldMap.
RECURSIVE Mutant_deleted(_, _)
Mutant_deleted(oldMap, newMap) ==
  IF oldMap = <<>> THEN <<>>
  ELSE LET number == oldMap[1][1]
           oldArticle == oldMap[1][2]
           rest == Mutant_deleted(Tail(oldMap), newMap)
       IN IF ~MapHas(newMap, number) /\ Len(oldMap) > 1
          THEN <<[article_number |-> number, change_type |-> "deleted",
                  old_content |-> oldArticle.article_content]>> \o rest
          ELSE rest

RECURSIVE deleted(_, _)
deleted(oldMap, newMap) ==
  IF oldMap = <<>> THEN <<>>
  ELSE LET number == oldMap[1][1]
           oldArticle == oldMap[1][2]
           rest == deleted(Tail(oldMap), newMap)
       IN IF ~MapHas(newMap, number)
          THEN <<[article_number |-> number, change_type |-> "deleted",
                  old_content |-> oldArticle.article_content]>> \o rest
          ELSE rest

\* Lines 400-441
compareArticles(oldArticles, newArticles) ==
  LET oldMap == ToMap(oldArticles)
      newMap == ToMap(newArticles)
  IN addedAndModified(oldMap, newMap) \o deleted(oldMap, newMap)

ArticleSet ==
  {[article_number |-> n, article_content |-> c] :
     n \in ArticleNumbers, c \in ArticleContents}

ArticleLists == UNION {[1..n -> ArticleSet] : n \in 0..MaxArticles}

InitDiff ==
  /\ dOld \in ArticleLists /\ dNew \in ArticleLists
  /\ dChanges = <<>> /\ dpc = "input"
  /\ OthersOff("diff")

Compare ==
  /\ dpc = "input"
  /\ dChanges' = compareArticles(dOld, dNew)
  /\ dpc' = "done"
  /\ UNCHANGED <<dOld, dNew>>
  /\ OthersUnchanged("diff")

NextDiff == Compare

SpecDiff == InitDiff /\ [][NextDiff]_vars

(***************************************************************************)
(* Claims about the change detector                                        *)
(***************************************************************************)
NumbersOf(articles) == {articles[i].article_number : i \in 1..Len(articles)}

ContentsOf(articles, n) ==
  {articles[i].article_content :
     i \in {j \in 1..Len(articles) : articles[j].article_number = n}}

DeltasOf(n) == {i \in 1..Len(dChanges) : dChanges[i].article_number = n}

Unique(articles) == Cardinality(NumbersOf(articles)) = Len(articles)

\* C5: compareArticles returns exactly one delta for every article number
\* that changed and none for a number whose content is the same in both
\* lists: "added" with the new content for a number only in the new list,
\* "deleted" with the old content for a number only in the old list,
\* "modified" with both contents for a number in both lists whose contents
\* differ.  For disjoint number sets the output has one delta per article
\* number of either list (|old| + |new| when no list repeats a number), the
\* old ones deleted and the new ones added.
C5_OneDeltaPerChange ==
  dpc = "done" =>
    /\ \A i \in 1..Len(dChanges) :
         /\ dChanges[i].article_number \in NumbersOf(dOld) \cup NumbersOf(dNew)
         /\ Cardinality(DeltasOf(dChanges[i].article_number)) = 1
    /\ \A n \in NumbersOf(dNew) \ NumbersOf(dOld) :
         \E i \in DeltasOf(n) :
           /\ dChanges[i].change_type = "added"
           /\ DOMAIN dChanges[i] = {"article_number", "change_type", "new_content"}
           /\ dChanges[i].new_content \in ContentsOf(dNew, n)
    /\ \A n \in NumbersOf(dOld) \ NumbersOf(dNew) :
         \E i \in DeltasOf(n) :
           /\ dChanges[i].change_type = "deleted"
           /\ DOMAIN dChanges[i] = {"article_number", "change_type", "old_content"}
           /\ dChanges[i].old_content \in ContentsOf(dOld, n)
    /\ \A n \in NumbersOf(dOld) \cap NumbersOf(dNew) :
         /\ ContentsOf(dOld, n) \cap ContentsOf(dNew, n) = {} =>
              \E i \in DeltasOf(n) :
                /\ dChanges[i].change_type = "modified"
                /\ dChanges[i].old_content \in ContentsOf(dOld, n)
                /\ dChanges[i].new_content \in ContentsOf(dNew, n)
         /\ (\E c \in ArticleContents :
               ContentsOf(dOld, n) = {c} /\ ContentsOf(dNew, n) = {c}) =>
              DeltasOf(n) = {}
    /\ NumbersOf(dOld) \cap NumbersOf(dNew) = {} =>
         /\ Len(dChanges) =
              Cardinality(NumbersOf(dOld)) + Cardinality(NumbersOf(dNew))
         /\ (Unique(dOld) /\ Unique(dNew)) =>
              Len(dChanges) = Len(dOld) + Len(dNew)

\* Two lists without repeated numbers were compared: one number changed its
\* content, one kept it.
C5_Witness ==
  /\ dpc = "done" /\ Unique(dOld) /\ Unique(dNew)
  /\ \E n, m \in NumbersOf(dOld) \cap NumbersOf(dNew) :
       /\ ContentsOf(dOld, n) # ContentsOf(dNew, n) /\ DeltasOf(n) # {}
       /\ ContentsOf(dOld, m) = ContentsOf(dNew, m) /\ DeltasOf(m) = {}

(***************************************************************************)
(* Impact analyzer: src/services/aiAnalysis.ts (analyzeLawImpact,          *)
(* batchAnalyzeImpacts) and the Gemini service (analyzeGeminiImpact,       *)
(* batchAnalyzeGeminiImpacts)                                              *)
(***************************************************************************)
MaxBatch == 3

Flavors == {"openai", "gemini"}

\* The fields of ImpactAnalysisResult, lines 8-15.
ResultFields ==
  {"impact_level", "impact_type", "change_summary", "ai_recommendation",
   "confidence_score", "reasoning"}

\* The value of a property an object does not have.
Undefined == "<undefined>"

\* The objects a provider's text may parse to: every field is present with a
\* value the prompt asks for, present with another value, or absent.  A
\* number is written by its decimal text.
FieldValues(f) ==
  CASE f = "impact_level" -> {"HIGH", "URGENT", Undefined}
    [] f = "impact_type" -> {"review-needed", "unknown", Undefined}
    [] f = "confidence_score" -> {"0.9", "1.5", Undefined}
    [] OTHER -> {"text", Undefined}

JsonObjects == {o \in [ResultFields -> {"HIGH", "URGENT", "review-needed",
                                       "unknown", "0.9", "1.5", "text",
                                       Undefined}] :
                  \A f \in ResultFields : o[f] \in FieldValues(f)}

NoObject == [f \in ResultFields |-> Undefined]

\* What the provider answers to one call:
\*   net       "throw" when fetch rejects, "ok" when it resolves
\*   status_ok response.ok
\*   body_json whether response.json() resolves
\*   envelope  whether the body holds the text at its place
\*             (choices[0].message.content, candidates[0].content.parts[0].text)
\*   content   the text: "text" (no JSON), "empty" (""), "null", "prim" (a
\*             JSON number, string or boolean), "object"
\*   object    the object the text parses to
MkReply(net, status_ok, body_json, envelope, content, object) ==
  [net |-> net, status_ok |-> status_ok, body_json |-> body_json,
   envelope |-> envelope, content |-> content, object |-> object]

ReplyThrow == MkReply("throw", FALSE, FALSE, FALSE, "text", NoObject)
ReplyHttpError == MkReply("ok", FALSE, TRUE, FALSE, "text", NoObject)
ReplyText == MkReply("ok", TRUE, TRUE, TRUE, "text", NoObject)
ReplyNull == MkReply("ok", TRUE, TRUE, TRUE, "null", NoObject)
ReplyObject(o) == MkReply("ok", TRUE, TRUE, TRUE, "object", o)

FullObject ==
  [f \in ResultFields |->
     CASE f = "impact_level" -> "HIGH"
       [] f = "impact_type" -> "review-needed"
       [] f = "confidence_score" -> "0.9"
       [] OTHER -> "text"]

Replies ==
  {ReplyThrow, ReplyHttpError,
   MkReply("ok", FALSE, FALSE, FALSE, "text", NoObject),
   MkReply("ok", TRUE, FALSE, FALSE, "text", NoObject),
   MkReply("ok", TRUE, TRUE, FALSE, "text", NoObject),
   ReplyText, ReplyNull,
   MkReply("ok", TRUE, TRUE, TRUE, "empty", NoObject),
   MkReply("ok", TRUE, TRUE, TRUE, "prim", NoObject)}
  \cup {ReplyObject(o) : o \in JsonObjects}

\* The replies the batch draws from.
BatchReplies ==
  {ReplyThrow, ReplyHttpError, ReplyText, ReplyNull, ReplyObject(FullObject),
   ReplyObject([FullObject EXCEPT !["reasoning"] = Undefined])}

Threw == [threw |-> TRUE, value |-> Null]
Returned(v) == [threw |-> FALSE, value |-> v]

\* Lines 70-79 (Gemini 102-111): JSON.parse(content) and the object returned.
\* JSON.parse raises on a text that is no JSON; a property of null raises; a
\* property a value does not have is undefined.
ParseResult(content, object) ==
  CASE content \in {"text", "empty"} -> Threw
    [] content = "null" -> Threw
    [] content = "prim" -> Returned(NoObject)
    [] OTHER -> Returned([f \in ResultFields |-> object[f]])

\* The try block of analyzeLawImpact, lines 34-79, and of
\* analyzeGeminiImpact, lines 59-111.
TryAnalyze(flavor, reply) ==
  IF reply.net = "throw" THEN Threw
  ELSE IF ~reply.status_ok
  THEN IF reply.body_json THEN Returned(Null) ELSE Threw
  ELSE IF ~reply.body_json THEN Threw
  ELSE IF flavor = "openai"
  THEN IF ~reply.envelope THEN Threw
       ELSE ParseResult(reply.content, reply.object)
  ELSE IF ~reply.envelope \/ reply.content = "empty" THEN Returned(Null)
       ELSE ParseResult(reply.content, reply.object)

\* analyzeLawImpact, lines 29-85, and analyzeGeminiImpact, lines 54-117: the
\* catch block returns null.
Mutant_analyzeImpact(flavor, reply) == TryAnalyze(flavor, reply)

analyzeImpact(flavor, reply) ==
  IF TryAnalyze(flavor, reply).threw THEN Returned(Null)
  ELSE TryAnalyze(flavor, reply)

InitAnalyze ==
  /\ aFlavor \in Flavors /\ aReply \in Replies
  /\ aResult = Null /\ apc = "call"
  /\ OthersOff("analyze")

\* One call of the analyzer; a call that raises rejects its promise.
AnalyzeCall ==
  /\ apc = "call"
  /\ LET r == analyzeImpact(aFlavor, aReply)
     IN /\ aResult' = r.value
        /\ apc' = IF r.threw THEN "rejected" ELSE "done"
  /\ UNCHANGED <<aFlavor, aReply>>
  /\ OthersUnchanged("analyze")

NextAnalyze == AnalyzeCall

SpecAnalyze == InitAnalyze /\ [][NextAnalyze]_vars

RECURSIVE SeqsUpTo(_, _)
SeqsUpTo(S, n) ==
  IF n = 0 THEN {<<>>}
  ELSE SeqsUpTo(S, n - 1) \cup
       {Append(q, x) : q \in {p \in SeqsUpTo(S, n - 1) : Len(p) = n - 1}, x \in S}

InitBatch ==
  /\ bFlavor \in Flavors /\ bOnProgress \in BOOLEAN
  /\ bRequests \in SeqsUpTo(BatchReplies, MaxBatch)
  /\ bResults = <<>> /\ bI = 0 /\ bProgress = <<>> /\ bpc = "loop"
  /\ OthersOff("batch")

\* Lines 97-103 (Gemini 129-135): the analyzer is awaited for requests[i], its
\* result is pushed and the progress is reported.  A call that raises rejects
\* the batch's promise.
BatchItem ==
  /\ bpc = "loop" /\ bI < Len(bRequests)
  /\ LET r == analyzeImpact(bFlavor, bRequests[bI + 1])
     IN IF r.threw
        THEN bpc' = "rejected" /\ UNCHANGED <<bResults, bProgress>>
        ELSE /\ bResults' = Append(bResults, r.value)
             /\ bProgress' = IF bOnProgress
                             THEN Append(bProgress, <<bI + 1, Len(bRequests)>>)
                             ELSE bProgress
             /\ bpc' = "wait"
  /\ UNCHANGED <<bFlavor, bRequests, bOnProgress, bI>>
  /\ OthersUnchanged("batch")

\* Line 106 (Gemini 138): the delay between two requests ends; i++.
BatchWait ==
  /\ bpc = "wait"
  /\ bI' = bI + 1 /\ bpc' = "loop"
  /\ UNCHANGED <<bFlavor, bRequests, bOnProgress, bResults, bProgress>>
  /\ OthersUnchanged("batch")

\* Line 109 (Gemini 141): return results.
BatchReturn ==
  /\ bpc = "loop" /\ bI = Len(bRequests)
  /\ bpc' = "done"
  /\ UNCHANGED <<bFlavor, bRequests, bOnProgress, bResults, bI, bProgress>>
  /\ OthersUnchanged("batch")

NextBatch == BatchItem \/ BatchWait \/ BatchReturn

SpecBatch == InitBatch /\ [][NextBatch]_vars

(***************************************************************************)
(* Claims about the impact analyzer                                        *)
(***************************************************************************)
\* The provider call of a request failed or threw, or its answer holds no
\* text that parses to a JSON value with properties.
ItemFailed(flavor, reply) ==
  \/ reply.net = "throw"
  \/ ~reply.status_ok
  \/ ~reply.body_json
  \/ ~reply.envelope
  \/ reply.content \in {"text", "empty", "null"}

\* C6: for a request list of length n the batch analyzer returns an array of
\* length n in request order; entry i is null exactly when item i failed and
\* otherwise holds the fields of the provider's answer to request i; no
\* failure ends the batch early.
C6_BatchKeepsEveryItem ==
  /\ bpc # "rejected"
  /\ bpc = "done" =>
       /\ Len(bResults) = Len(bRequests)
       /\ \A i \in 1..Len(bRequests) :
            /\ bResults[i] = Null <=> ItemFailed(bFlavor, bRequests[i])
            /\ bResults[i] # Null =>
                 \/ bRequests[i].content = "prim"
                 \/ \A f \in ResultFields : bResults[i][f] = bRequests[i].object[f]

\* A batch of 3 ended whose second provider call threw: its entry is null and
\* the entries of items 1 and 3 are populated.
C6_Witness ==
  /\ bpc = "done" /\ Len(bRequests) = 3
  /\ bRequests[2].net = "throw" /\ bResults[2] = Null
  /\ bResults[1] = FullObject /\ bResults[3] = FullObject

ImpactLevels == {"HIGH", "MEDIUM", "LOW"}
ImpactTypes ==
  {"required-amendment", "recommended-amendment", "review-needed", "no-impact"}
UnitInterval == {"0", "0.9", "1"}

ValidResult(v) ==
  /\ v["impact_level"] \in ImpactLevels
  /\ v["impact_type"] \in ImpactTypes
  /\ v["change_summary"] # Undefined
  /\ v["ai_recommendation"] # Undefined
  /\ v["confidence_score"] \in UnitInterval
  /\ v["reasoning"] # Undefined

\* C7: the analyzer returns a non-null result only when the provider's text
\* parses as JSON and carries every required field with a valid value; on a
\* parse failure or a missing field the result is null, never a partially
\* filled object.
C7_ValidOrNull ==
  apc = "done" =>
    (aResult # Null =>
       /\ aReply.net = "ok" /\ aReply.status_ok /\ aReply.body_json
       /\ aReply.envelope /\ aReply.content = "object"
       /\ ValidResult(aReply.object)
       /\ ValidResult(aResult))

(***************************************************************************)
(* Embedding providers: src/services/embedding.ts (generateEmbedding) and  *)
(* src/services/geminiEmbedding.ts (generateGeminiEmbedding, padEmbedding) *)
(***************************************************************************)
MaxTextLen == 2
MaxPadLen == 3

\* The dimension generateGeminiEmbedding pads to, geminiEmbedding.ts line 66.
CanonicalDim == 1536

\* String.prototype.trim removes these from both ends.
WhiteSpace == {" ", "\t", "\n", "\r"}

\* A text is the sequence of its characters.
Chars == {" ", "\n", "a"}

RECURSIVE trimStart(_)
trimStart(s) ==
  IF s # <<>> /\ Head(s) \in WhiteSpace THEN trimStart(Tail(s)) ELSE s

RECURSIVE trimEnd(_)
trimEnd(s) ==
  IF s # <<>> /\ s[Len(s)] \in WhiteSpace
  THEN trimEnd(SubSeq(s, 1, Len(s) - 1)) ELSE s

Mutant_trim(s) == s

trim(s) == trimEnd(trimStart(s))

\* Lines 26 of both services: !text || text.trim().length === 0
isEmptyText(text) == text = <<>> \/ Len(trim(text)) = 0

\* padEmbedding, geminiEmbedding.ts lines 174-191: the vector itself when the
\* lengths agree, its first targetDim entries when it is longer, and else the
\* vector followed by zeros up to targetDim.
Mutant_padEmbedding(embedding, targetDim) ==
  IF Len(embedding) > targetDim THEN SubSeq(embedding, 1, targetDim)
  ELSE embedding

padEmbedding(embedding, targetDim) ==
  IF Len(embedding) = targetDim THEN embedding
  ELSE IF Len(embedding) > targetDim THEN SubSeq(embedding, 1, targetDim)
  ELSE embedding \o [i \in 1..(targetDim - Len(embedding)) |-> 0]

\* The vectors of the model: n entries after one of two patterns, the first
\* without a zero entry.
Vector(n, k) == [i \in 1..n |-> IF k = 1 THEN (i % 2) + 1 ELSE i % 3]

NativeDims == {0, 2, 768, 1536, 1537}

\* What the provider answers to an embedding request:
\*   net       "throw" when fetch rejects, "ok" when it resolves
\*   status_ok response.ok
\*   body_json whether response.json() resolves
\*   message   whether the error body holds error.message
\*   envelope  "none": the body lacks data[0] (Gemini: embedding);
\*             "novector": data[0] holds no embedding (Gemini: no values);
\*             "vector": the vector is at its place
\*   vector    the upstream vector
MkEmbedReply(net, status_ok, body_json, message, envelope, vector) ==
  [net |-> net, status_ok |-> status_ok, body_json |-> body_json,
   message |-> message, envelope |-> envelope, vector |-> vector]

EmbedReplies ==
  {MkEmbedReply("throw", FALSE, FALSE, FALSE, "none", <<>>),
   MkEmbedReply("ok", FALSE, FALSE, FALSE, "none", <<>>),
   MkEmbedReply("ok", FALSE, TRUE, FALSE, "none", <<>>),
   MkEmbedReply("ok", FALSE, TRUE, TRUE, "none", <<>>),
   MkEmbedReply("ok", TRUE, FALSE, FALSE, "none", <<>>),
   MkEmbedReply("ok", TRUE, TRUE, FALSE, "none", <<>>),
   MkEmbedReply("ok", TRUE, TRUE, FALSE, "novector", <<>>)}
  \cup {MkEmbedReply("ok", TRUE, TRUE, FALSE, "vector", Vector(n, 1)) :
          n \in NativeDims}

\* EmbeddingResponse, lines 6-10; an absent embedding has has_embedding FALSE
\* and an absent error is "".
EmbedFailure(error) ==
  [success |-> FALSE, has_embedding |-> FALSE, embedding |-> <<>>,
   error |-> error]

EmbedSuccess(has, embedding) ==
  [success |-> TRUE, has_embedding |-> has, embedding |-> embedding,
   error |-> ""]

\* The catch block, lines 63-69 (Gemini 73-79): the message of the error.
EmbedCaught == EmbedFailure("thrown")

\* generateEmbedding lines 33-61 and generateGeminiEmbedding lines 33-71:
\* what follows the fetch.
AfterFetch(flavor, reply) ==
  IF reply.net = "throw" THEN EmbedCaught
  ELSE IF ~reply.status_ok
  THEN IF ~reply.body_json THEN EmbedCaught
       ELSE EmbedFailure(IF reply.message THEN "upstream message"
                         ELSE "Failed to generate embedding")
  ELSE IF ~reply.body_json \/ reply.envelope = "none" THEN EmbedCaught
  ELSE IF flavor = "openai"
  THEN EmbedSuccess(reply.envelope = "vector", reply.vector)
  ELSE IF reply.envelope = "novector" THEN EmbedCaught
  ELSE EmbedSuccess(TRUE, padEmbedding(reply.vector, CanonicalDim))

\* generateEmbedding lines 21-70 and generateGeminiEmbedding lines 21-80.
generateEmbedding(flavor, text, reply) ==
  IF isEmptyText(text)
  THEN [response |-> EmbedFailure("Text cannot be empty"), fetches |-> 0]
  ELSE [response |-> AfterFetch(flavor, reply), fetches |-> 1]

Texts2 == SeqsUpTo(Chars, MaxTextLen)

InitEmbed ==
  /\ eFlavor \in Flavors /\ eText \in Texts2 /\ eReply \in EmbedReplies
  /\ eResponse = Null /\ eFetches = 0 /\ epc = "call"
  /\ OthersOff("embed")

\* One call of the single-text embedding function.
Embed ==
  /\ epc = "call"
  /\ LET r == generateEmbedding(eFlavor, eText, eReply)
     IN /\ eResponse' = r.response
        /\ eFetches' = eFetches + r.fetches
  /\ epc' = "done"
  /\ UNCHANGED <<eFlavor, eText, eReply>>
  /\ OthersUnchanged("embed")

NextEmbed == Embed

SpecEmbed == InitEmbed /\ [][NextEmbed]_vars

PadLens == (0..MaxPadLen) \cup {767, 768, 1535, 1536, 1537}
PadDims == (0..MaxPadLen) \cup {CanonicalDim}

InitPad ==
  /\ \E n \in PadLens, k \in 1..2 : pIn = Vector(n, k)
  /\ pDim \in PadDims
  /\ pOut = <<>> /\ ppc = "call"
  /\ OthersOff("pad")

\* One call of padEmbedding.
Pad ==
  /\ ppc = "call"
  /\ pOut' = padEmbedding(pIn, pDim)
  /\ ppc' = "done"
  /\ UNCHANGED <<pIn, pDim>>
  /\ OthersUnchanged("pad")

NextPad == Pad

SpecPad == InitPad /\ [][NextPad]_vars

(***************************************************************************)
(* Claims about the embedding providers                                    *)
(***************************************************************************)
\* C8: every embedding returned successfully by the single-text path of
\* either implementation has exactly CanonicalDim entries, whatever the
\* length of the upstream vector.
C8_CanonicalLength ==
  (epc = "done" /\ eResponse.success) =>
    /\ eResponse.has_embedding
    /\ Len(eResponse.embedding) = CanonicalDim

\* C9: padEmbedding(v, D) has length D; a shorter v is followed by zeros, a
\* longer v is cut to its first D entries, a v of length D is returned as is.
C9_PadToLength ==
  ppc = "done" =>
    /\ Len(pOut) = pDim
    /\ Len(pIn) < pDim =>
         /\ \A i \in 1..Len(pIn) : pOut[i] = pIn[i]
         /\ \A i \in (Len(pIn) + 1)..pDim : pOut[i] = 0
    /\ Len(pIn) > pDim => \A i \in 1..pDim : pOut[i] = pIn[i]
    /\ Len(pIn) = pDim => pOut = pIn

\* A 768-entry vector without a zero was padded to 1536 entries.
C9_Witness ==
  /\ ppc = "done" /\ Len(pIn) = 768 /\ pDim = 1536
  /\ \A i \in 1..768 : pIn[i] # 0
  /\ Len(pOut) = 1536 /\ pOut[768] = pIn[768] /\ pOut[769] = 0

Blank(text) == \A i \in 1..Len(text) : text[i] \in {" ", "\n"}

\* C10: embedding an empty or whitespace-only text answers the validation
\* failure and makes no network call.
C10_BlankTextNoFetch ==
  (epc = "done" /\ Blank(eText)) =>
    /\ ~eResponse.success
    /\ eResponse.error = "Text cannot be empty"
    /\ eFetches = 0

\* A text of whitespace only, not empty, was refused although the provider
\* would have answered a vector.
C10_Witness ==
  /\ epc = "done" /\ eText # <<>> /\ Blank(eText)
  /\ eReply.envelope = "vector"
  /\ ~eResponse.success /\ eFetches = 0

(***************************************************************************)
(* Batch embedding: generateBatchEmbeddings (src/services/embedding.ts)    *)
(* and generateGeminiBatchEmbeddings (src/services/geminiEmbedding.ts)     *)
(***************************************************************************)
MaxBatches == 2

\* embedding.ts line 99, geminiEmbedding.ts line 113.
BATCH_SIZE == 100

\* A text of the batch is 0 when it is empty or whitespace only, and else the
\* positive number that names it.
BatchSizes ==
  {0, 1} \cup {k * BATCH_SIZE : k \in 1..MaxBatches}
         \cup {k * BATCH_SIZE + 1 : k \in 1..MaxBatches}

BatchTexts(n, blanks) ==
  [i \in 1..n |->
     IF blanks = "all" \/ (blanks = "first" /\ i = 1) THEN 0 ELSE i]

\* Line 88: texts.filter(t => t && t.trim().length > 0)
validTextsOf(texts) == SelectSeq(texts, LAMBDA t : t # 0)

\* Array.prototype.slice(i, j), 0-based and end-exclusive.
slice(s, i, j) == SubSeq(s, i + 1, Min(j, Len(s)))

\* What the provider answers to one sub-batch request: "ok" (one embedding per
\* input, in input order), "http_error" (!response.ok), "throw" (fetch
\* rejects), "malformed" (a body without the list of embeddings).
SubBatchReplies == {"ok", "http_error", "throw", "malformed"}

\* The embedding of text t.  A vector is named by the text it embeds; padded
\* tells whether padEmbedding(., 1536) was applied to it (Gemini line 149).
ItemEmbedding(flavor, t) == [of |-> t, padded |-> (flavor = "gemini")]

\* BatchEmbeddingResponse, lines 12-16.
BatchFailure(error) ==
  [success |-> FALSE, has_embeddings |-> FALSE, embeddings |-> <<>>,
   error |-> error]

BatchSuccess(embeddings) ==
  [success |-> TRUE, has_embeddings |-> TRUE, embeddings |-> embeddings,
   error |-> ""]

\* One turn of the loop, lines 101-127 (Gemini 115-153): either the function
\* returns a response, or the sub-batch's embeddings are pushed.
Mutant_SubBatchStep(flavor, reply, embeddings, batch) ==
  IF reply = "ok"
  THEN [returned |-> FALSE, response |-> Null,
        embeddings |-> embeddings \o
                       [k \in 1..Len(batch) |-> ItemEmbedding(flavor, batch[k])]]
  ELSE [returned |-> FALSE, response |-> Null, embeddings |-> embeddings]

SubBatchStep(flavor, reply, embeddings, batch) ==
  CASE reply = "throw" ->
         [returned |-> TRUE, response |-> BatchFailure("thrown"),
          embeddings |-> embeddings]
    [] reply = "http_error" ->
         [returned |-> TRUE, response |-> BatchFailure("upstream message"),
          embeddings |-> embeddings]
    [] reply = "malformed" ->
         [returned |-> TRUE, response |-> BatchFailure("thrown"),
          embeddings |-> embeddings]
    [] OTHER ->
         [returned |-> FALSE, response |-> Null,
          embeddings |-> embeddings \o
                         [k \in 1..Len(batch) |-> ItemEmbedding(flavor, batch[k])]]

InitEBatch ==
  /\ ebFlavor \in Flavors
  /\ \E n \in BatchSizes, blanks \in {"none", "first", "all"} :
       ebTexts = BatchTexts(n, blanks)
  /\ ebReplies \in [1..(MaxBatches + 1) -> SubBatchReplies]
  /\ ebValidTexts = <<>> /\ ebI = 0 /\ ebEmbeddings = <<>>
  /\ ebResponse = Null /\ ebFetches = 0 /\ ebpc = "start"
  /\ OthersOff("ebatch")

\* Lines 80-99 (Gemini 90-113): the two validations, then the loop begins.
EBatchValidate ==
  /\ ebpc = "start"
  /\ IF Len(ebTexts) = 0
     THEN /\ ebResponse' = BatchFailure("Texts array cannot be empty")
          /\ ebpc' = "done" /\ UNCHANGED ebValidTexts
     ELSE IF Len(validTextsOf(ebTexts)) = 0
     THEN /\ ebResponse' = BatchFailure("No valid texts to process")
          /\ ebpc' = "done" /\ UNCHANGED ebValidTexts
     ELSE /\ ebValidTexts' = validTextsOf(ebTexts)
          /\ ebpc' = "loop" /\ UNCHANGED ebResponse
  /\ UNCHANGED <<ebFlavor, ebTexts, ebReplies, ebI, ebEmbeddings, ebFetches>>
  /\ OthersUnchanged("ebatch")

\* Lines 101-127 (Gemini 115-153): one sub-batch is requested and answered.
EBatchRequest ==
  /\ ebpc = "loop" /\ ebI < Len(ebValidTexts)
  /\ LET batch == slice(ebValidTexts, ebI, ebI + BATCH_SIZE)
         r == SubBatchStep(ebFlavor, ebReplies[ebFetches + 1], ebEmbeddings,
                           batch)
     IN /\ ebFetches' = ebFetches + 1
        /\ ebEmbeddings' = r.embeddings
        /\ IF r.returned
           THEN ebResponse' = r.response /\ ebpc' = "done" /\ UNCHANGED ebI
           ELSE /\ ebI' = ebI + BATCH_SIZE
                /\ UNCHANGED <<ebResponse, ebpc>>
  /\ UNCHANGED <<ebFlavor, ebTexts, ebReplies, ebValidTexts>>
  /\ OthersUnchanged("ebatch")

\* Lines 129-132 (Gemini 155-158): the loop is over.
EBatchReturn ==
  /\ ebpc = "loop" /\ ebI >= Len(ebValidTexts)
  /\ ebResponse' = BatchSuccess(ebEmbeddings)
  /\ ebpc' = "done"
  /\ UNCHANGED <<ebFlavor, ebTexts, ebReplies, ebValidTexts, ebI,
                 ebEmbeddings, ebFetches>>
  /\ OthersUnchanged("ebatch")

NextEBatch == EBatchValidate \/ EBatchRequest \/ EBatchReturn

SpecEBatch == InitEBatch /\ [][NextEBatch]_vars

\* The number of sub-batch requests n valid texts need.
SubBatchCount(n) == (n + BATCH_SIZE - 1) \div BATCH_SIZE

\* C11: when one of the sub-batch requests of a batch call fails upstream the
\* call fails and returns no embeddings, also after earlier sub-batches
\* succeeded; a successful call returns the embeddings of every sub-batch.
C11_AllOrNothing ==
  ebpc = "done" =>
    LET valid == validTextsOf(ebTexts)
        failed == \E j \in 1..ebFetches : ebReplies[j] # "ok"
    IN /\ failed => /\ ~ebResponse.success
                    /\ ~ebResponse.has_embeddings
                    /\ ebResponse.embeddings = <<>>
       /\ ebResponse.success =>
            /\ ebFetches = SubBatchCount(Len(valid))
            /\ \A j \in 1..ebFetches : ebReplies[j] = "ok"
            /\ Len(ebResponse.embeddings) = Len(valid)
            /\ \A k \in 1..Len(valid) : ebResponse.embeddings[k].of = valid[k]

\* The first sub-batch succeeded, the second failed, and the call failed
\* without embeddings.
C11_Witness ==
  /\ ebpc = "done" /\ ebFetches = 2
  /\ ebReplies[1] = "ok" /\ ebReplies[2] = "http_error"
  /\ Len(ebEmbeddings) = BATCH_SIZE
  /\ ~ebResponse.success /\ ~ebResponse.has_embeddings

(***************************************************************************)
(* chunkText: src/services/embedding.ts lines 189-235                      *)
(***************************************************************************)
MaxChunkText == 5

\* The characters of the texts given to chunkText: a letter, a sentence end,
\* a blank and a newline.
ChunkChars == {"a", ".", " ", "\n"}

\* The maxTokens given to chunkText.
ChunkLimits == {1, 2}

\* The length of the match of /\n\n+/ that begins at position i of s, or 0.
RECURSIVE NewlineRun(_, _)
NewlineRun(s, i) ==
  IF i <= Len(s) /\ s[i] = "\n" THEN 1 + NewlineRun(s, i + 1) ELSE 0

paragraphMatch(s, i) == IF NewlineRun(s, i) >= 2 THEN NewlineRun(s, i) ELSE 0

\* The length of the match of /[.!?]\s+/ that begins at position i of s, or 0.
RECURSIVE SpaceRun(_, _)
SpaceRun(s, i) ==
  IF i <= Len(s) /\ s[i] \in WhiteSpace THEN 1 + SpaceRun(s, i + 1) ELSE 0

sentenceMatch(s, i) ==
  IF i <= Len(s) /\ s[i] \in {".", "!", "?"} /\ SpaceRun(s, i + 1) >= 1
  THEN 1 + SpaceRun(s, i + 1) ELSE 0

\* String.prototype.split with a pattern: the pieces between the matches,
\* found from left to right; from is where the current piece begins.
RECURSIVE splitParagraphs(_, _, _)
splitParagraphs(s, from, i) ==
  IF i > Len(s) THEN <<SubSeq(s, from, Len(s))>>
  ELSE IF paragraphMatch(s, i) > 0
  THEN <<SubSeq(s, from, i - 1)>> \o
       splitParagraphs(s, i + paragraphMatch(s, i), i + paragraphMatch(s, i))
  ELSE splitParagraphs(s, from, i + 1)

RECURSIVE splitSentences(_, _, _)
splitSentences(s, from, i) ==
  IF i > Len(s) THEN <<SubSeq(s, from, Len(s))>>
  ELSE IF sentenceMatch(s, i) > 0
  THEN <<SubSeq(s, from, i - 1)>> \o
       splitSentences(s, i + sentenceMatch(s, i), i + sentenceMatch(s, i))
  ELSE splitSentences(s, from, i + 1)

\* The loop state of chunkText: chunks and currentChunk.
ChunkState(chunks, currentChunk) ==
  [chunks |-> chunks, currentChunk |-> currentChunk]

\* Lines 212-221: the loop over the sentences of a paragraph, from sentence k.
RECURSIVE sentenceLoop(_, _, _, _)
sentenceLoop(sentences, k, st, maxChars) ==
  IF k > Len(sentences) THEN st
  ELSE LET sentence == sentences[k]
           cur == st.currentChunk
       IN sentenceLoop(sentences, k + 1,
            IF Len(cur \o sentence) > maxChars
            THEN ChunkState(IF cur # <<>> THEN Append(st.chunks, trim(cur))
                            ELSE st.chunks,
                            sentence)
            ELSE ChunkState(st.chunks,
                            cur \o (IF cur # <<>> THEN <<" ">> ELSE <<>>)
                                \o sentence),
            maxChars)

\* Lines 202-228: the loop over the paragraphs, from paragraph k.
RECURSIVE paragraphLoop(_, _, _, _)
paragraphLoop(paragraphs, k, st, maxChars) ==
  IF k > Len(paragraphs) THEN st
  ELSE LET paragraph == paragraphs[k]
           cur == st.currentChunk
           flushed == IF cur # <<>>
                      THEN ChunkState(Append(st.chunks, trim(cur)), <<>>)
                      ELSE st
       IN paragraphLoop(paragraphs, k + 1,
            IF Len(cur \o paragraph) > maxChars
            THEN IF Len(paragraph) > maxChars
                 THEN sentenceLoop(splitSentences(paragraph, 1, 1), 1, flushed,
                                   maxChars)
                 ELSE ChunkState(flushed.chunks, paragraph)
            ELSE ChunkState(st.chunks,
                            cur \o (IF cur # <<>> THEN <<"\n", "\n">> ELSE <<>>)
                                \o paragraph),
            maxChars)

\* chunkText, lines 189-235.
chunkText(text, maxTokens) ==
  LET maxChars == maxTokens * 4
      st == paragraphLoop(splitParagraphs(text, 1, 1), 1,
                          ChunkState(<<>>, <<>>), maxChars)
  IN IF Len(text) <= maxChars THEN <<text>>
     ELSE IF st.currentChunk # <<>>
     THEN Append(st.chunks, trim(st.currentChunk))
     ELSE st.chunks

InitChunk ==
  /\ cText \in SeqsUpTo(ChunkChars, MaxChunkText)
  /\ cMaxTokens \in ChunkLimits
  /\ cChunks = <<>> /\ cpc = "call"
  /\ OthersOff("chunk")

\* One call of chunkText.
Chunk ==
  /\ cpc = "call"
  /\ cChunks' = chunkText(cText, cMaxTokens)
  /\ cpc' = "done"
  /\ UNCHANGED <<cText, cMaxTokens>>
  /\ OthersUnchanged("chunk")

NextChunk == Chunk

SpecChunk == InitChunk /\ [][NextChunk]_vars

\* The sentences of a text: those of each of its paragraphs.
SentencesOf(text) ==
  UNION {Range(splitSentences(p, 1, 1)) :
           p \in Range(splitParagraphs(text, 1, 1))}

\* C13: every chunk chunkText returns has at most 4 * maxTokens characters,
\* except a chunk that is one single sentence of the text which by itself is
\* longer than that.
C13_ChunkWithinLimit ==
  cpc = "done" =>
    \A k \in 1..Len(cChunks) :
      \/ Len(cChunks[k]) <= 4 * cMaxTokens
      \/ \E s \in SentencesOf(cText) :
           Len(s) > 4 * cMaxTokens /\ cChunks[k] \in {s, trim(s)}

\* C14: chunkText returns at least one chunk for every text and every
\* positive maxTokens.
C14_AtLeastOneChunk == cpc = "done" => Len(cChunks) >= 1

(***************************************************************************)
(* embedArticle and averageEmbeddings: src/services/embedding.ts lines     *)
(* 240-294                                                                 *)
(***************************************************************************)
MaxChunks == 3
EmbedDim == 2

\* The vectors the provider answers for a chunk.
ChunkVectors == [1..EmbedDim -> 0..1]

RECURSIVE GCD(_, _)
GCD(a, b) == IF b = 0 THEN a ELSE GCD(b, a % b)

\* The number a / b, b > 0, as a fraction in lowest terms.
Quotient(a, b) ==
  [num |-> a \div (IF a = 0 THEN b ELSE GCD(a, b)),
   den |-> b \div (IF a = 0 THEN b ELSE GCD(a, b))]

\* Lines 283-287: result[i] after the first k embeddings were added.
RECURSIVE addedUp(_, _, _)
addedUp(embeddings, i, k) ==
  IF k = 0 THEN 0 ELSE addedUp(embeddings, i, k - 1) + embeddings[k][i]

\* averageEmbeddings, lines 275-294.
Mutant_averageEmbeddings(embeddings) ==
  IF Len(embeddings) = 0 THEN <<>>
  ELSE [i \in 1..Len(embeddings[1]) |->
          Quotient(addedUp(embeddings, i, Len(embeddings)),
                   Len(embeddings[1]))]

averageEmbeddings(embeddings) ==
  IF Len(embeddings) = 0 THEN <<>>
  ELSE [i \in 1..Len(embeddings[1]) |->
          Quotient(addedUp(embeddings, i, Len(embeddings)), Len(embeddings))]

\* The chunks of an article are not blank: a chunk is the text "a", and the
\* provider's vector for chunk k is vectors[k].
ChunkTextOf(k) == <<"a">>

\* What the provider answers to generateEmbedding(chunks[0]).
SingleReply(kind, vectors) ==
  CASE kind = "throw" -> MkEmbedReply("throw", FALSE, FALSE, FALSE, "none", <<>>)
    [] kind = "http_error" -> MkEmbedReply("ok", FALSE, TRUE, TRUE, "none", <<>>)
    [] kind = "malformed" -> MkEmbedReply("ok", TRUE, TRUE, FALSE, "none", <<>>)
    [] OTHER -> MkEmbedReply("ok", TRUE, TRUE, FALSE, "vector", vectors[1])

\* generateBatchEmbeddings on at most BATCH_SIZE texts, none of them blank:
\* one request, lines 102-135.
batchEmbeddingsOf(chunks, kind, vectors) ==
  CASE kind = "throw" -> BatchFailure("thrown")
    [] kind = "http_error" -> BatchFailure("upstream message")
    [] kind = "malformed" -> BatchFailure("thrown")
    [] OTHER -> BatchSuccess([k \in 1..Len(chunks) |-> vectors[chunks[k]]])

\* embedArticle, lines 240-270, from the chunks chunkText returned.
embedArticle(chunks, kind, vectors) ==
  IF Len(chunks) = 1
  THEN generateEmbedding("openai", ChunkTextOf(chunks[1]),
                         SingleReply(kind, vectors)).response
  ELSE LET batchResponse == batchEmbeddingsOf(chunks, kind, vectors)
       IN IF ~batchResponse.success \/ ~batchResponse.has_embeddings
          THEN EmbedFailure(batchResponse.error)
          ELSE EmbedSuccess(TRUE, averageEmbeddings(batchResponse.embeddings))

InitArticle ==
  /\ \E n \in 1..MaxChunks :
       /\ aeChunks = [k \in 1..n |-> k]
       /\ aeVectors \in [1..n -> ChunkVectors]
  /\ aeKind \in SubBatchReplies
  /\ aeResponse = Null /\ aepc = "call"
  /\ OthersOff("article")

\* One call of embedArticle.
EmbedArticle ==
  /\ aepc = "call"
  /\ aeResponse' = embedArticle(aeChunks, aeKind, aeVectors)
  /\ aepc' = "done"
  /\ UNCHANGED <<aeChunks, aeKind, aeVectors>>
  /\ OthersUnchanged("article")

NextArticle == EmbedArticle

SpecArticle == InitArticle /\ [][NextArticle]_vars

\* The sum of entry i of the vectors of the chunks in S.
RECURSIVE EntrySum(_, _)
EntrySum(S, i) ==
  IF S = {} THEN 0
  ELSE LET k == CHOOSE x \in S : TRUE
       IN aeVectors[k][i] + EntrySum(S \ {k}, i)

\* C12: embedArticle returns the embedding of the single chunk when there is
\* one chunk; with more chunks it returns their element-wise arithmetic mean,
\* of the dimension of the chunk embeddings; when embedding the chunks fails
\* it returns a failure without an embedding.
C12_MeanOfChunks ==
  aepc = "done" =>
    LET n == Len(aeChunks)
    IN /\ aeKind # "ok" => ~aeResponse.success /\ ~aeResponse.has_embedding
       /\ (aeKind = "ok" /\ n = 1) =>
            aeResponse.success /\ aeResponse.embedding = aeVectors[1]
       /\ (aeKind = "ok" /\ n > 1) =>
            /\ aeResponse.success
            /\ Len(aeResponse.embedding) = EmbedDim
            /\ \A i \in 1..EmbedDim :
                 aeResponse.embedding[i].num * n =
                   EntrySum(1..n, i) * aeResponse.embedding[i].den

\* Three chunks with different vectors were embedded and averaged.
C12_Witness ==
  /\ aepc = "done" /\ Len(aeChunks) = 3 /\ aeKind = "ok"
  /\ aeVectors[1] # aeVectors[2] /\ aeVectors[2] # aeVectors[3]
  /\ aeResponse.success /\ Len(aeResponse.embedding) = EmbedDim

(***************************************************************************)
(* preprocessTextForEmbedding: src/services/embedding.ts lines 178-183     *)
(***************************************************************************)
MaxNormText == 5

\* The characters of the texts given to preprocessTextForEmbedding.
NormChars == {"a", " ", "\n"}

\* Line 180: .replace(/\s+/g, ' '), from position i on.
Mutant_replaceSpaces(s, i) ==
  IF i > Len(s) THEN <<>>
  ELSE LET pairs == {k \in 1..Len(s) :
                       /\ k >= i /\ k < Len(s)
                       /\ s[k] \in WhiteSpace /\ s[k + 1] \in WhiteSpace
                       /\ SpaceRun(s, k) % 2 = 0}
       IN SelectSeq([k \in 1..Len(s) |->
                       IF k < i \/ k - 1 \in pairs THEN "<cut>"
                       ELSE IF k \in pairs THEN " " ELSE s[k]],
                    LAMBDA c : c # "<cut>")

RECURSIVE replaceSpaces(_, _)
replaceSpaces(s, i) ==
  IF i > Len(s) THEN <<>>
  ELSE IF SpaceRun(s, i) > 0
  THEN <<" ">> \o replaceSpaces(s, i + SpaceRun(s, i))
  ELSE <<s[i]>> \o replaceSpaces(s, i + 1)

\* Line 181: .replace(/\n+/g, '\n'), from position i on.
RECURSIVE replaceNewlines(_, _)
replaceNewlines(s, i) ==
  IF i > Len(s) THEN <<>>
  ELSE IF NewlineRun(s, i) > 0
  THEN <<"\n">> \o replaceNewlines(s, i + NewlineRun(s, i))
  ELSE <<s[i]>> \o replaceNewlines(s, i + 1)

\* preprocessTextForEmbedding, lines 178-183.
preprocessTextForEmbedding(text) ==
  trim(replaceNewlines(replaceSpaces(text, 1), 1))

InitNorm ==
  /\ nText \in SeqsUpTo(NormChars, MaxNormText)
  /\ nOnce = <<>> /\ nTwice = <<>> /\ npc = "call"
  /\ OthersOff("norm")

\* The text is normalized.
Normalize ==
  /\ npc = "call"
  /\ nOnce' = preprocessTextForEmbedding(nText)
  /\ npc' = "once"
  /\ UNCHANGED <<nText, nTwice>>
  /\ OthersUnchanged("norm")

\* The normalized text is normalized again.
NormalizeAgain ==
  /\ npc = "once"
  /\ nTwice' = preprocessTextForEmbedding(nOnce)
  /\ npc' = "twice"
  /\ UNCHANGED <<nText, nOnce>>
  /\ OthersUnchanged("norm")

NextNorm == Normalize \/ NormalizeAgain

SpecNorm == InitNorm /\ [][NextNorm]_vars

\* C15: normalizing a normalized text changes nothing.
C15_NormalizeIdempotent == npc = "twice" => nTwice = nOnce

\* A text with runs of blanks and newlines between two letters, and blanks at
\* its ends, was normalized twice.
C15_Witness ==
  /\ npc = "twice"
  /\ nText = <<" ", "a", "\n", "\n", "a">>
  /\ nOnce = <<"a", " ", "a">> /\ nTwice = <<"a", " ", "a">>

(***************************************************************************)
(* cosineSimilarity: src/services/embedding.ts lines 149-172 and           *)
(* src/services/geminiEmbedding.ts lines 196-219                           *)
(***************************************************************************)
MaxVecLen == 2

\* The entries of the vectors given to cosineSimilarity.
VecEntries == {-1, 0, 1}

\* Lines 158-162: the sum of a[i] * b[i] over the first k entries.
RECURSIVE dotProduct(_, _, _)
dotProduct(a, b, k) ==
  IF k = 0 THEN 0 ELSE dotProduct(a, b, k - 1) + a[k] * b[k]

\* A returned number num / sqrt(den2); 0 / sqrt(0) is NaN.
CosValue(num, den2) ==
  [threw |-> FALSE, message |-> "", num |-> num, den2 |-> den2]

CosZero == CosValue(0, 1)

CosThrow(message) == [threw |-> TRUE, message |-> message, num |-> 0, den2 |-> 0]

\* Line 151 (Gemini 198): the message of the error.
lengthMessage(flavor) ==
  IF flavor = "openai" THEN "Embeddings must have the same length"
  ELSE "Embeddings must have the same dimension"

\* cosineSimilarity, lines 149-172 (Gemini 196-219).  Math.sqrt(x) is 0
\* exactly when x is 0.
Mutant_cosineSimilarity(flavor, a, b) ==
  IF Len(a) # Len(b) THEN CosThrow(lengthMessage(flavor))
  ELSE CosValue(dotProduct(a, b, Len(a)),
                dotProduct(a, a, Len(a)) * dotProduct(b, b, Len(b)))

cosineSimilarity(flavor, a, b) ==
  IF Len(a) # Len(b) THEN CosThrow(lengthMessage(flavor))
  ELSE IF dotProduct(a, a, Len(a)) = 0 \/ dotProduct(b, b, Len(b)) = 0
  THEN CosZero
  ELSE CosValue(dotProduct(a, b, Len(a)),
                dotProduct(a, a, Len(a)) * dotProduct(b, b, Len(b)))

InitCos ==
  /\ vFlavor \in Flavors
  /\ vA \in SeqsUpTo(VecEntries, MaxVecLen)
  /\ vB \in SeqsUpTo(VecEntries, MaxVecLen)
  /\ vResult = Null /\ vpc = "call"
  /\ OthersOff("cos")

\* One call of cosineSimilarity.
Cosine ==
  /\ vpc = "call"
  /\ vResult' = cosineSimilarity(vFlavor, vA, vB)
  /\ vpc' = IF cosineSimilarity(vFlavor, vA, vB).threw THEN "thrown" ELSE "done"
  /\ UNCHANGED <<vFlavor, vA, vB>>
  /\ OthersUnchanged("cos")

NextCos == Cosine

SpecCos == InitCos /\ [][NextCos]_vars

AllZero(v) == \A i \in 1..Len(v) : v[i] = 0

\* C16: cosineSimilarity raises when the lengths differ, and for vectors of
\* one length returns exactly 0 when a or b has only zero entries; so do both
\* modules' implementations.
C16_MismatchRaisesZeroIsZero ==
  vpc \in {"done", "thrown"} =>
    /\ Len(vA) # Len(vB) => vpc = "thrown" /\ vResult.threw
    /\ (Len(vA) = Len(vB) /\ (AllZero(vA) \/ AllZero(vB))) =>
         /\ vpc = "done" /\ ~vResult.threw
         /\ vResult.num = 0 /\ vResult.den2 > 0

\* A zero vector was compared with a non-zero vector of its length.
C16_Witness ==
  /\ vpc = "done" /\ Len(vA) = 2 /\ Len(vB) = 2
  /\ AllZero(vA) /\ ~AllZero(vB)
  /\ vResult = CosZero

(***************************************************************************)
(* Matcher: DatabaseService.findSimilarArticles (database service, lines   *)
(* 431-446) and findSimilarLawArticles (scripts/link-regulations-to-laws.js *)
(* lines 11-36)                                                            *)
(***************************************************************************)
MaxCorpus == 3

\* "service" is DatabaseService.findSimilarArticles, "script" is
\* findSimilarLawArticles.
Matchers == {"service", "script"}

\* The similarity 1 - (vector_embedding <=> query) of a corpus article, in
\* thousandths.
MatchScores == {300, 650, 651, 800}

MatchThresholds == {650, 800}

\* The orders ORDER BY vector_embedding <=> query may give the articles of S:
\* descending similarity, equal similarities in any order.
RECURSIVE Ranked(_, _)
Ranked(S, sims) ==
  IF S = {} THEN {<<>>}
  ELSE UNION {{<<x>> \o o : o \in Ranked(S \ {x}, sims)} :
                x \in {y \in S : \A z \in S : sims[y] >= sims[z]}}

\* LIMIT n
Limit(rows, n) == SubSeq(rows, 1, Min(n, Len(rows)))

\* The results the query of findSimilarArticles may give, lines 437-444:
\* WHERE similarity > threshold ORDER BY distance LIMIT limit.
findSimilarArticles(sims, limit, threshold) ==
  {Limit(o, limit) :
     o \in Ranked({a \in DOMAIN sims : sims[a] > threshold}, sims)}

\* The results the query of findSimilarLawArticles may give, lines 14-29:
\* ORDER BY distance LIMIT 5, without a test of the similarity.
findSimilarLawArticlesRows(sims) ==
  {Limit(o, TOP_N_MATCHES) : o \in Ranked(DOMAIN sims, sims)}

InitMatch ==
  /\ mFlavor \in Matchers
  /\ \E n \in 0..MaxCorpus : mSims \in [1..n -> MatchScores]
  /\ mRaises \in BOOLEAN
  /\ IF mFlavor = "script"
     THEN mLimit = TOP_N_MATCHES /\ mThreshold = SIMILARITY_THRESHOLD
     ELSE mLimit \in 0..(MaxCorpus - 1) /\ mThreshold \in MatchThresholds
  /\ mRows = <<>> /\ mpc = "call"
  /\ OthersOff("match")

\* One call of the matcher.  A query that raises rejects findSimilarArticles;
\* findSimilarLawArticles catches it and returns [] (lines 32-35).
Match ==
  /\ mpc = "call"
  /\ IF mRaises
     THEN /\ mRows' = <<>>
          /\ mpc' = IF mFlavor = "script" THEN "done" ELSE "rejected"
     ELSE /\ mRows' \in IF mFlavor = "script"
                        THEN findSimilarLawArticlesRows(mSims)
                        ELSE findSimilarArticles(mSims, mLimit, mThreshold)
          /\ mpc' = "done"
  /\ UNCHANGED <<mFlavor, mSims, mLimit, mThreshold, mRaises>>
  /\ OthersUnchanged("match")

NextMatch == Match

SpecMatch == InitMatch /\ [][NextMatch]_vars

\* C17: the matcher returns no item whose similarity is below the threshold,
\* returns its items by descending similarity, and returns at most k items.
C17_ThresholdOrderLimit ==
  mpc = "done" =>
    /\ \A i \in 1..Len(mRows) : mSims[mRows[i]] >= mThreshold
    /\ \A i \in 1..Len(mRows), j \in 1..Len(mRows) :
         i < j => mSims[mRows[i]] >= mSims[mRows[j]]
    /\ Len(mRows) <= mLimit

(***************************************************************************)
(* Claims about the failures of a linkage run                              *)
(***************************************************************************)
\* The regulations the loop of line 96 has begun with, in order.
AttemptedRegs == SubSeq(regulations, 1, processed)

\* C18: a failure while retrieving the candidates or saving a link of one
\* regulation does not abort the run: the regulations with an embedding are
\* attempted once each, in the run's order; the run is never stuck before its
\* end (between two regulations the next one or the summary can be taken,
\* within a regulation a candidate is left to handle), and at its end every
\* one of them has been attempted.
C18_RunSurvivesFailures ==
  /\ lpc = "loop" => ENABLED (LoopRegulation \/ Summary)
  /\ lpc = "articles" => ai < Len(similarArticles) /\ DateNow # {}
  /\ \A i \in 1..Len(AttemptedRegs) :
       /\ hasEmbedding[AttemptedRegs[i]]
       /\ \A j \in 1..Len(AttemptedRegs) :
            i < j => AttemptedRegs[i] < AttemptedRegs[j]
  /\ RunDone =>
       /\ processed = Len(regulations)
       /\ Range(AttemptedRegs) = {r \in Regs : hasEmbedding[r]}

\* A run has ended in which the candidate query of regulation 1 raised and
\* the INSERT of a link of regulation 2 raised, and in which another link of
\* regulation 2 was written after that.
C18_Witness ==
  /\ RunDone /\ badRegs = {1} /\ badArts = {3}
  /\ AttemptedRegs = <<1, 2>>
  /\ \A a \in Arts : WritesOf(1, a) = {}
  /\ SurelyTop5(2, 3) /\ Similarity(2, 3) >= 650 /\ RowsOf(2, 3) = {}
  /\ \E a \in Arts : WritesOf(2, a) # {}

(***************************************************************************)
(* Review of links: the columns verified, verified_by and verified_at of   *)
(* law_regulation_links (migrations/0001_initial_schema.sql lines 130-132) *)
(* are written by the reviewer; DatabaseService.updateLinkVerification     *)
(* (src/services/database.ts lines 199-201) only logs its arguments.       *)
(***************************************************************************)
MaxReviews == 1

Reviewers == {"reviewer1", "reviewer2"}

\* What the reviewer's update does to the table: the row linkId gets the
\* verification state, the other rows and columns stay.
updateLinkVerification(tbl, linkId, verified, verifiedBy, at) ==
  {IF l.link_id = linkId
   THEN [l EXCEPT !.verified = verified, !.verified_by = verifiedBy,
                  !.verified_at = at]
   ELSE l : l \in tbl}

\* The corpus of the review runs: regulation 1 alone has an embedding, the
\* articles 1 and 2 are eligible, the database raises nowhere.
InitLinkReview ==
  /\ \E p \in ProfileIds : simProfile = [r \in Regs |-> ((p + r) % 4) + 1]
  /\ hasEmbedding = [r \in Regs |-> r = 1]
  /\ eligible = {1, 2}
  /\ LinkIdle /\ badRegs = {} /\ badArts = {}
  /\ OthersOff("link")

\* The reviewer marks a link verified, at any moment, also during a run.
Review ==
  /\ Cardinality(reviewed) < MaxReviews
  /\ \E l \in links, by \in Reviewers :
       /\ ~l.verified
       /\ links' = updateLinkVerification(links, l.link_id, TRUE, by, now)
       /\ reviewed' = reviewed \cup
            {[link_id |-> l.link_id, regulation_id |-> l.regulation_id,
              article_id |-> l.article_id, by |-> by, at |-> now,
              after_run |-> runs]}
  /\ UNCHANGED <<simProfile, hasEmbedding, eligible, now, badRegs, badArts,
                 lpc, regulations, processed, similarArticles, ai,
                 linksCreated, totalLinks, regulationsWithLinks, runs, writes>>

NextLinkReview ==
  /\ StartRun \/ LoopRegulation \/ ArticleStep \/ Summary \/ Review
  /\ OthersUnchanged("link")

SpecLinkReview == InitLinkReview /\ [][NextLinkReview]_vars

PairRegs == {1, 2}

\* The corpus of the two runs: both regulations have an embedding, the
\* articles 1, 2 and 3 are eligible, the database raises nowhere.
InitPair ==
  /\ \E p \in ProfileIds : simProfile = [r \in Regs |-> ((p + r) % 4) + 1]
  /\ hasEmbedding = [r \in Regs |-> TRUE]
  /\ eligible = {1, 2, 3}
  /\ LinkIdle /\ badRegs = {} /\ badArts = {}
  /\ wpc = [r \in PairRegs |-> "query"]
  /\ wRows = [r \in PairRegs |-> <<>>]
  /\ wI = [r \in PairRegs |-> 0]
  /\ OthersOff("pair")

\* Lines 102-111: the run for regulation r retrieves its candidates.
PairQuery ==
  /\ \E r \in PairRegs :
       /\ wpc[r] = "query"
       /\ \E rows \in findSimilarLawArticles(r, TRUE) :
            /\ wRows' = [wRows EXCEPT ![r] = rows]
            /\ wpc' = [wpc EXCEPT ![r] = IF Len(rows) = 0 THEN "done"
                                         ELSE "articles"]
  /\ UNCHANGED <<wI, linkVars>>

\* Lines 118-139: the run for regulation r handles its next candidate.
PairSave ==
  /\ \E r \in PairRegs :
       /\ wpc[r] = "articles"
       /\ LET article == wRows[r][wI[r] + 1]
          IN IF AboveThreshold(article.similarity)
             THEN \E t \in DateNow :
                    /\ now' = t
                    /\ links' = saveLawRegulationLink(links, r,
                                  article.article_id, article.law_id,
                                  article.similarity, t, TRUE).table
             ELSE UNCHANGED <<now, links>>
       /\ wI' = [wI EXCEPT ![r] = wI[r] + 1]
       /\ wpc' = [wpc EXCEPT ![r] = IF wI[r] + 1 = Len(wRows[r]) THEN "done"
                                    ELSE "articles"]
  /\ UNCHANGED <<wRows, reviewed, simProfile, hasEmbedding, eligible, badRegs,
                 badArts, lpc, regulations, processed, similarArticles, ai,
                 linksCreated, totalLinks, regulationsWithLinks, runs, writes>>

NextPair ==
  /\ PairQuery \/ PairSave
  /\ OthersUnchanged("pair")

SpecPair == InitPair /\ [][NextPair]_vars

(***************************************************************************)
(* Claims about runs for different regulations                             *)
(***************************************************************************)
\* A link without its link_id: the pair, the score and the type.
LinkContent(l) ==
  [regulation_id |-> l.regulation_id, article_id |-> l.article_id,
   confidence_score |-> l.confidence_score, link_type |-> l.link_type]

\* The links the run for regulation r is to leave, given the candidates its
\* query returned.
OwnLinks(r) ==
  {[regulation_id |-> r, article_id |-> wRows[r][i].article_id,
    confidence_score |-> Decimal32(wRows[r][i].similarity),
    link_type |-> "basis"] :
     i \in {j \in 1..Len(wRows[r]) : wRows[r][j].similarity >= 650}}

LinksOfRegulation(tbl, r) == {l \in tbl : l.regulation_id = r}

\* C20: the runs for two different regulations are independent: whatever the
\* order or the interleaving of their steps, when both have ended the links
\* are those of the one run together with those of the other (pairs, scores
\* and types), and no step changes the links of a regulation other than the
\* one the step works for.
C20_RunsCommute ==
  /\ []((\A r \in PairRegs : wpc[r] = "done") =>
          {LinkContent(l) : l \in links} = UNION {OwnLinks(r) : r \in PairRegs})
  /\ [][\A r \in PairRegs :
          (wpc'[r] = wpc[r] /\ wI'[r] = wI[r]) =>
            LinksOfRegulation(links', r) = LinksOfRegulation(links, r)]_vars

\* Both runs have saved links and neither has ended: their steps interleave.
C20_Witness ==
  /\ \A r \in PairRegs :
       /\ wpc[r] = "articles" /\ wI[r] >= 1
       /\ LinksOfRegulation(links, r) # {}
  /\ \E l1 \in LinksOfRegulation(links, 1), l2 \in LinksOfRegulation(links, 2) :
       l1.article_id = l2.article_id

(***************************************************************************)
(* generateAllEmbeddings (src/unnamed/part_011, lines 102-184)             *)
(***************************************************************************)
MaxGen == 3

\* What happens to one article: generateGeminiEmbedding answers null (its
\* catch, lines 43-46), or it answers a vector and updateArticleEmbedding
\* answers true or false (lines 88-101).
GenOutcomes == {"null", "saved", "not_saved"}

\* Lines 105-129: the articles without an embedding are selected; an empty
\* selection returns at once.
InitGen ==
  /\ gArticles \in SeqsUpTo(GenOutcomes, MaxGen)
  /\ gProcessed = 0 /\ gSuccess = 0 /\ gFailed = 0
  /\ gInFlight = 0 /\ gDelayed = FALSE
  /\ gpc = IF Len(gArticles) = 0 THEN "done" ELSE "loop"
  /\ OthersOff("gen")

\* Lines 131-143: processed++, the text is built and the provider is called.
GenCall ==
  /\ gpc = "loop" /\ gProcessed < Len(gArticles)
  /\ gProcessed' = gProcessed + 1
  /\ gInFlight' = gInFlight + 1
  /\ gpc' = "call"
  /\ UNCHANGED <<gArticles, gSuccess, gFailed, gDelayed>>
  /\ OthersUnchanged("gen")

\* Lines 143-162: the provider call ends.  Without an embedding the article
\* is counted as failed and `continue` goes to the next article; otherwise
\* the vector is saved and counted.
GenReply ==
  /\ gpc = "call"
  /\ gInFlight' = gInFlight - 1
  /\ gDelayed' = FALSE
  /\ IF gArticles[gProcessed] = "null"
     THEN gFailed' = gFailed + 1 /\ gpc' = "loop" /\ UNCHANGED gSuccess
     ELSE /\ gpc' = "wait"
          /\ IF gArticles[gProcessed] = "saved"
             THEN gSuccess' = gSuccess + 1 /\ UNCHANGED gFailed
             ELSE gFailed' = gFailed + 1 /\ UNCHANGED gSuccess
  /\ UNCHANGED <<gArticles, gProcessed>>
  /\ OthersUnchanged("gen")

\* Line 172: await new Promise(resolve => setTimeout(resolve, 4000)).
GenWait ==
  /\ gpc = "wait"
  /\ gDelayed' = TRUE
  /\ gpc' = "loop"
  /\ UNCHANGED <<gArticles, gProcessed, gSuccess, gFailed, gInFlight>>
  /\ OthersUnchanged("gen")

\* Lines 180-185: the summary.
GenSummary ==
  /\ gpc = "loop" /\ gProcessed = Len(gArticles)
  /\ gpc' = "done"
  /\ UNCHANGED <<gArticles, gProcessed, gSuccess, gFailed, gInFlight, gDelayed>>
  /\ OthersUnchanged("gen")

NextGen == GenCall \/ GenReply \/ GenWait \/ GenSummary

SpecGen == InitGen /\ [][NextGen]_vars

(***************************************************************************)
(* Claims about the rate limit of the provider loops                       *)
(***************************************************************************)
\* C21: in the embedding-generation loop at most one provider call is in
\* flight, and the call for every article but the first starts only after the
\* rate-limit delay has elapsed since the previous article's call ended,
\* whether that article succeeded or failed.
C21_OneCallThenDelay ==
  /\ gInFlight <= 1
  /\ (gpc = "call" /\ gProcessed > 1) => gDelayed

(***************************************************************************)
(* The batch analyzer with the provider call as two steps: the fetch of    *)
(* analyzeLawImpact (aiAnalysis.ts line 36, Gemini part_003 line 64) is    *)
(* sent, and the provider may answer it.  The fetch is given no signal and *)
(* no timer; nothing but the provider's answer settles it.                 *)
(***************************************************************************)
\* Line 98 (Gemini 130): analyzeLawImpact(requests[i]) is called and awaits
\* its fetch.
BatchSend ==
  /\ bpc = "loop" /\ bI < Len(bRequests)
  /\ bpc' = "in_flight"
  /\ UNCHANGED <<bFlavor, bRequests, bOnProgress, bResults, bI, bProgress>>
  /\ OthersUnchanged("batch")

\* The provider answers (or the connection fails): the fetch settles and
\* lines 98-103 go on as in BatchItem.
Mutant_ProviderResponds ==
  /\ bpc = "in_flight"
  /\ LET r == analyzeImpact(bFlavor, bRequests[bI + 1])
     IN /\ bResults' = Append(bResults, r.value)
        /\ bProgress' = IF bOnProgress /\ r.value # Null
                        THEN Append(bProgress, <<bI + 1, Len(bRequests)>>)
                        ELSE bProgress
        /\ bpc' = "wait"
  /\ UNCHANGED <<bFlavor, bRequests, bOnProgress, bI>>
  /\ OthersUnchanged("batch")

ProviderResponds ==
  /\ bpc = "in_flight"
  /\ LET r == analyzeImpact(bFlavor, bRequests[bI + 1])
     IN IF r.threw
        THEN bpc' = "rejected" /\ UNCHANGED <<bResults, bProgress>>
        ELSE /\ bResults' = Append(bResults, r.value)
             /\ bProgress' = IF bOnProgress
                             THEN Append(bProgress, <<bI + 1, Len(bRequests)>>)
                             ELSE bProgress
             /\ bpc' = "wait"
  /\ UNCHANGED <<bFlavor, bRequests, bOnProgress, bI>>
  /\ OthersUnchanged("batch")

NextBatchNet == BatchSend \/ ProviderResponds \/ BatchWait \/ BatchReturn

\* The event loop runs every step of the program that is ready and every
\* timer fires; the provider is under no obligation to answer.
SpecBatchNet ==
  /\ InitBatch /\ [][NextBatchNet]_vars
  /\ WF_vars(BatchSend) /\ WF_vars(BatchWait) /\ WF_vars(BatchReturn)

(***************************************************************************)
(* Claims about timeouts                                                   *)
(***************************************************************************)
\* C22: every provider call ends within a bounded time, with a failure
\* returned to the caller when the provider never answers, so that a batch
\* over finitely many requests eventually finishes.
C22_BatchEventuallyFinishes == <>(bpc \in {"done", "rejected"})

(***************************************************************************)
(* The batch analyzer and a caller that asks for cancellation.  The        *)
(* parameters of batchAnalyzeImpacts (aiAnalysis.ts lines 90-93) are the   *)
(* requests, the key and the progress callback: the loop of lines 97-107   *)
(* reads nothing that a cancellation could set.                            *)
(***************************************************************************)
\* The caller requests cancellation, at any moment of the batch.
Cancel ==
  /\ bpc \in {"loop", "in_flight", "wait"}
  /\ ~cancelRequested
  /\ cancelRequested' = TRUE
  /\ OthersUnchanged("cancel")

NextBatchCancel ==
  BatchSend \/ ProviderResponds \/ BatchWait \/ BatchReturn \/ Cancel

SpecBatchCancel == InitBatch /\ [][NextBatchCancel]_vars

(***************************************************************************)
(* Claims about cancellation                                               *)
(***************************************************************************)
\* C23: the batch checks the cancellation signal at each iteration of its
\* loop: once cancellation has been requested the call in flight may end, but
\* no provider call for a later request is started.
C23_NoCallAfterCancel ==
  [][(cancelRequested /\ bpc = "loop") => bpc' # "in_flight"]_vars

(***************************************************************************)
(* Claims about the boundary of the matcher's threshold                    *)
(***************************************************************************)
\* C24: the threshold of DatabaseService.findSimilarArticles is inclusive: an
\* article whose similarity equals the threshold is returned whenever it
\* ranks within the first k, here whenever at most k articles reach the
\* threshold at all.
C24_ThresholdInclusive ==
  (mpc = "done" /\ mFlavor = "service" /\ ~mRaises) =>
    \A a \in DOMAIN mSims :
      (/\ mSims[a] = mThreshold
       /\ Cardinality({b \in DOMAIN mSims : mSims[b] >= mThreshold}) <= mLimit)
        => a \in Range(mRows)

(***************************************************************************)
(* Claims about the reason of the heuristic                                *)
(***************************************************************************)
\* The reason quickHeuristicAnalysis gives when the content changed and the
\* regulation shares the keyword "ui mu" with the old content but does not
\* name the article.
KeywordOnlyReason ==
  quickHeuristicAnalysis(
    [article_number |-> <<"1">>, article_content |-> <<"ui", "mu">>],
    [article_number |-> <<"1">>, article_content |-> <<"x">>],
    [article_number |-> <<"7">>, article_content |-> <<"ui", "mu">>]).reason

\* C25: the reason names the rule that fired: when the statute content
\* changed and the regulation text contains the reference to the article's
\* number, the reason is the one of the direct reference and is not the
\* reason given when only a shared keyword was found.
C25_ReasonNamesRule ==
  (/\ hpc = "done" /\ hOld # Null
   /\ contentChanged(hOld, hNew)
   /\ hasReference(hNew, hReg.article_content)) =>
    /\ hResult.shouldAnalyze
    /\ hResult.reason = "Direct reference found"
    /\ hResult.reason # KeywordOnlyReason

(***************************************************************************)
(* Claims about the line structure kept by the normalizer                  *)
(***************************************************************************)
\* C26: the normalizer keeps the line structure: where the text has a run of
\* one or more newlines between two words, the normalized text has these two
\* words with exactly one newline between them.
C26_NewlineRunKept ==
  npc # "call" =>
    \A i \in 1..Len(nText), j \in 1..Len(nText) :
      (/\ i + 1 < j /\ nText[i] = "a" /\ nText[j] = "a"
       /\ \A k \in (i + 1)..(j - 1) : nText[k] = "\n")
        => Includes(nOnce, <<"a", "\n", "a">>)

(***************************************************************************)
(* Claims about the progress reports of the batch analyzer                 *)
(***************************************************************************)
\* C27: with a progress callback, the batch analyzer reports once per
\* request, as soon as the request's result (an object or null) is recorded
\* and before the provider call of the next request starts: the k-th report
\* is (k, n) for the n requests, and when the batch ends there are n reports.
C27_ProgressOncePerRequest ==
  /\ bOnProgress =>
       /\ bProgress = [k \in 1..Len(bResults) |-> <<k, Len(bRequests)>>]
       /\ bpc = "in_flight" => Len(bResults) = bI
       /\ bpc = "done" => Len(bProgress) = Len(bRequests)
  /\ ~bOnProgress => bProgress = <<>>

\* A batch of three requests with a callback has ended; the second request
\* failed, the others did not.
C27_Witness ==
  /\ bpc = "done" /\ bOnProgress /\ Len(bRequests) = 3
  /\ bResults[1] # Null /\ bResults[2] = Null /\ bResults[3] # Null
  /\ bProgress = << <<1, 3>>, <<2, 3>>, <<3, 3>> >>

(***************************************************************************)
(* chunkText of src/services/geminiEmbedding.ts, lines 239-252             *)
(***************************************************************************)
MaxGText == 3
MaxGChunks == 5

Max(a, b) == IF a > b THEN a ELSE b

\* String.prototype.substring(start, end) for start <= end <= length: a
\* negative start counts as 0.
substring(s, start, end) == SubSeq(s, Max(start, 0) + 1, end)

\* Lines 240-241, for a text and 0 <= overlap < chunkSize.
InitGChunk ==
  /\ gcText \in SeqsUpTo({"a", "b"}, MaxGText)
  /\ gcSize \in 1..MaxGText
  /\ gcOverlap \in 0..(gcSize - 1)
  /\ gcStart = 0 /\ gcChunks = <<>> /\ gcpc = "loop"
  /\ OthersOff("gchunk")

\* Lines 243-249: one turn of the while loop, while the array of chunks can
\* still grow (MaxGChunks chunks fit in memory).
GChunkStep ==
  /\ gcpc = "loop" /\ gcStart < Len(gcText)
  /\ Len(gcChunks) < MaxGChunks
  /\ LET end == Min(gcStart + gcSize, Len(gcText))
     IN /\ gcChunks' = Append(gcChunks, substring(gcText, gcStart, end))
        /\ gcStart' = end - gcOverlap
        /\ gcpc' = IF end - gcOverlap >= Len(gcText) THEN "done" ELSE "loop"
  /\ UNCHANGED <<gcText, gcSize, gcOverlap>>
  /\ OthersUnchanged("gchunk")

\* Lines 243 and 251: the loop condition fails, return chunks.
GChunkReturn ==
  /\ gcpc = "loop" /\ gcStart >= Len(gcText)
  /\ gcpc' = "done"
  /\ UNCHANGED <<gcText, gcSize, gcOverlap, gcStart, gcChunks>>
  /\ OthersUnchanged("gchunk")

\* Line 245: chunks.push(...) when the array cannot grow any more; the call
\* ends with the engine's out-of-memory failure.
GChunkOutOfMemory ==
  /\ gcpc = "loop" /\ gcStart < Len(gcText)
  /\ Len(gcChunks) = MaxGChunks
  /\ gcpc' = "out_of_memory"
  /\ UNCHANGED <<gcText, gcSize, gcOverlap, gcStart, gcChunks>>
  /\ OthersUnchanged("gchunk")

NextGChunk == GChunkStep \/ GChunkReturn \/ GChunkOutOfMemory

SpecGChunk ==
  /\ InitGChunk /\ [][NextGChunk]_vars
  /\ WF_vars(GChunkStep) /\ WF_vars(GChunkReturn) /\ WF_vars(GChunkOutOfMemory)

(***************************************************************************)
(* Claims about the chunks of fixed size                                   *)
(***************************************************************************)
\* The chunks without the overlap they repeat, one after the other.
RECURSIVE Uncovered(_, _, _)
Uncovered(chunks, overlap, k) ==
  IF k > Len(chunks) THEN <<>>
  ELSE (IF k = 1 THEN chunks[k] ELSE SubSeq(chunks[k], overlap + 1, Len(chunks[k])))
       \o Uncovered(chunks, overlap, k + 1)

\* C28: chunkText(text, chunkSize, overlap) ends for every text and every
\* 0 <= overlap < chunkSize, and then every chunk has at most chunkSize
\* characters and the chunks together cover the text.
C28_ChunkingTerminates ==
  /\ <>(gcpc = "done")
  /\ [](gcpc = "done" =>
          /\ \A k \in 1..Len(gcChunks) : Len(gcChunks[k]) <= gcSize
          /\ Uncovered(gcChunks, gcOverlap, 1) = gcText)

(***************************************************************************)
(* Claims about the alignment of the batch embeddings with the input       *)
(***************************************************************************)
\* C29: a successful batch call returns one embedding per input text, in
\* input order: entry i is the embedding of texts[i], also when some texts
\* are blank and when the texts need several sub-batches.
C29_OneEmbeddingPerText ==
  (ebpc = "done" /\ ebResponse.success) =>
    /\ Len(ebResponse.embeddings) = Len(ebTexts)
    /\ \A i \in 1..Len(ebTexts) :
         i <= Len(ebResponse.embeddings) => ebResponse.embeddings[i].of = ebTexts[i]

(***************************************************************************)
(* createDbConnection(...).query: src/unnamed/part_008 lines 27-57 (the    *)
(* placeholders are replaced in the text) and src/unnamed/part_007 lines   *)
(* 34-80 (the text is split into a template)                               *)
(***************************************************************************)
MaxQueryLen == 3

\* `$${index + 1}`
Placeholders == <<"$1", "$2">>

\* A query text is a sequence of pieces: a piece of SQL or a placeholder.
QueryPieces == {"x"} \cup Range(Placeholders)

\* The index of the placeholder tok, 0 for a piece of SQL.
PlaceholderIndex(tok) ==
  CHOOSE m \in 0..Len(Placeholders) :
    IF tok \in Range(Placeholders) THEN m > 0 /\ Placeholders[m] = tok ELSE m = 0

\* A parameter is a string; one of them is the text "$2".
ParamValues == {"v", "$2"}

\* A piece of the executed statement: from = 0 for a piece of the query text,
\* from = i for the value of params[i - 1] bound or written there.
Piece(tok, from) == [tok |-> tok, from |-> from]

FromText(text) == [k \in 1..Len(text) |-> Piece(text[k], 0)]

\* String.prototype.replace(placeholder, value) with a string pattern, part_008
\* line 44: the first occurrence only, wherever it stands.
replaceFirst(s, placeholder, value) ==
  LET found == {k \in 1..Len(s) : s[k].tok = placeholder}
  IN IF found = {} THEN s
     ELSE [s EXCEPT ![CHOOSE k \in found : \A j \in found : k <= j] = value]

\* part_008 lines 37-45: params.forEach(...), from parameter i on.
RECURSIVE processedText(_, _, _)
processedText(s, params, i) ==
  IF i > Len(params) THEN s
  ELSE processedText(replaceFirst(s, Placeholders[i], Piece(params[i], i)),
                     params, i + 1)

\* part_007 lines 47-64: the text is cut at the first $1, what remains at the
\* first $2, ...; a placeholder that is not found ends the loop.
RECURSIVE templateParts(_, _, _, _)
templateParts(remaining, params, i, acc) ==
  LET found == {k \in 1..Len(remaining) : remaining[k] = Placeholders[i]}
      index == CHOOSE k \in found : \A j \in found : k <= j
  IN IF i > Len(params) \/ found = {}
     THEN [parts |-> Append(acc.parts, remaining), values |-> acc.values]
     ELSE templateParts(SubSeq(remaining, index + 1, Len(remaining)), params,
                        i + 1,
                        [parts |-> Append(acc.parts, SubSeq(remaining, 1, index - 1)),
                         values |-> Append(acc.values, params[i])])

\* part_007 line 67: sql(parts, ...values) executes parts[0] $1 parts[1] $2 ...
\* with the values as parameters; a "$j" left inside a part is a parameter
\* reference of that statement too, bound when there are j values.
RECURSIVE templateStatement(_, _)
templateStatement(t, k) ==
  LET part == [j \in 1..Len(t.parts[k]) |->
                 LET tok == t.parts[k][j]
                     n == PlaceholderIndex(tok)
                 IN IF n > 0 /\ n <= Len(t.values)
                    THEN Piece(t.values[n], n) ELSE Piece(tok, 0)]
  IN IF k = Len(t.parts) THEN part
     ELSE part \o <<Piece(t.values[k], k)>> \o templateStatement(t, k + 1)

\* query(text, params): the statement that is executed.
query(flavor, text, params) ==
  IF Len(params) = 0 THEN FromText(text)
  ELSE IF flavor = "replace" THEN processedText(FromText(text), params, 1)
  ELSE templateStatement(
         templateParts(text, params, 1, [parts |-> <<>>, values |-> <<>>]), 1)

InitQuery ==
  /\ qFlavor \in {"replace", "template"}
  /\ qText \in SeqsUpTo(QueryPieces, MaxQueryLen)
  /\ qParams \in SeqsUpTo(ParamValues, Len(Placeholders))
  /\ qStatement = <<>> /\ qpc = "call"
  /\ OthersOff("query")

Query ==
  /\ qpc = "call"
  /\ qStatement' = query(qFlavor, qText, qParams)
  /\ qpc' = "done"
  /\ UNCHANGED <<qFlavor, qText, qParams>>
  /\ OthersUnchanged("query")

NextQuery == Query

SpecQuery == InitQuery /\ [][NextQuery]_vars

(***************************************************************************)
(* Claims about the binding of the placeholders                            *)
(***************************************************************************)
\* The statement with every placeholder $i of the text bound to params[i-1].
Bound(text, params) ==
  [k \in 1..Len(text) |->
     IF PlaceholderIndex(text[k]) > 0
     THEN Piece(params[PlaceholderIndex(text[k])], PlaceholderIndex(text[k]))
     ELSE Piece(text[k], 0)]

\* C30: for a query whose placeholders all have a parameter, the wrapper
\* executes the text with every occurrence of $i bound to params[i-1] and
\* nothing else changed: a repeated placeholder and a parameter whose value
\* is the text "$2" are bound correctly and no placeholder stays unbound.
C30_EveryPlaceholderBound ==
  (/\ qpc = "done"
   /\ \A k \in 1..Len(qText) : PlaceholderIndex(qText[k]) <= Len(qParams)) =>
    qStatement = Bound(qText, qParams)

====
